---- MODULE Spec2Model ----
(***************************************************************************)
(* A state-machine model of fidelity2pit38 (src/src/fidelity2pit38):       *)
(* the FIFO lot matcher, the settlement and rate-date calendar rules, the  *)
(* rate merge with the Section G / foreign-tax totals, the loader of       *)
(* transaction CSV files, the custom-summary lot matcher, the PIT-38 field *)
(* arithmetic and the loader of the NBP rate archives.                     *)
(*                                                                         *)
(* Conventions.  A DataFrame is a sequence of row records; the pandas index *)
(* label of a row is its position.  Share quantities are integers.  A      *)
(* value that may be missing (None, NaT, a float NaN) is a sequence: <<>>  *)
(* when missing and <<v>> otherwise; amount_pln and rate are such values,  *)
(* in grosze (1/100 PLN) and in PLN per USD.  A missing string (a NaN in   *)
(* an object column) is the string NoName.                                 *)
(* Every component has its own specification (SpecFifo, SpecDates,         *)
(* SpecRates, SpecLoad, SpecCustom, SpecFields, SpecPipeline, SpecNbp,     *)
(* SpecIngest); the variables of the other components stay at Idle.        *)
(***************************************************************************)
EXTENDS Integers, Sequences, FiniteSets, TLC

VARIABLES
    pc,            \* position of the running function
    \* ---- process_fifo
    merged,        \* the input table (rows carry their index label = position)
    year,          \* the year argument: <<>> (None) or <<y>>
    sellsOrder,    \* index labels of `sells`, in iteration order
    sellPos,       \* how many sells the for-loop has taken
    qty,           \* the local `qty` of the sell being matched
    remaining,     \* buys['remaining'], by index label
    allocs,        \* the list `allocs`
    oversellLog,   \* errors logged by check_fifo_sale_not_oversell
    noLotsLog,     \* errors logged by check_fifo_open_lots_available
    totals,        \* the returned tuple, once computed
    \* ---- calculate_settlement_dates, calculate_rate_dates
    trade_dates,   \* the Series of trade dates (NaN for NaT)
    tx_types,      \* the Series of 'Transaction type' strings
    settlements,   \* the Series calculate_settlement_dates returns
    rate_dates,    \* the Series calculate_rate_dates returns
    \* ---- merge_with_rates and the totals of calculate_pit38
    tx,            \* the transaction table handed to merge_with_rates
    nbp_rates,     \* the rate table, rows [date, rate]
    missing_rates, \* the count check_exchange_rates_present logged (0: no error logged)
    section_g,     \* what compute_section_g_income_components returned
    capital_tax,   \* what compute_foreign_tax_capital_gains returned
    \* ---- load_transactions
    files,         \* the CSV files on disk: path -> rows
    paths,         \* the argument tx_csv, as a list of paths
    tx_raw,        \* the local tx_raw
    loaded,        \* the returned table
    load_error,    \* the exception raised, "" when none
    load_log,      \* what check_transaction_data_consistency logged
    \* ---- process_custom (with merged, year, allocs, totals of process_fifo)
    custom,        \* the custom-summary table, parsed
    customPos,     \* how many rows the for-loop has taken
    customLog,     \* what the run logged: records [kind, row]
    \* ---- calculate_pit38_fields, PIT38Fields.print, cli.main
    field_args,    \* the arguments of calculate_pit38_fields
    fields,        \* the PIT38Fields returned, <<>> when none
    fields_error,  \* the exception raised, "" when none
    presented,     \* who has printed the field values: "", "cli" or "print"
    \* ---- load_nbp_rates
    urls,          \* the CSV archives behind the URLs, in the order given
    rates_list,    \* the local rates_list
    rates,         \* the returned rate table
    rates_log,     \* what load_nbp_rates logged
    \* ---- calculate_pit38, lines 808-817 (with the variables of load_transactions)
    settled,       \* tx after dropna(subset=['settlement_date'])
    dropped_settlement_rows,  \* the local dropped_settlement_rows
    ingest_log     \* the warnings calculate_pit38 logged on the way

fifoVars == <<merged, year, sellsOrder, sellPos, qty, remaining, allocs,
              oversellLog, noLotsLog, totals>>
dateVars == <<trade_dates, tx_types, settlements, rate_dates>>
rateVars == <<tx, nbp_rates, missing_rates, section_g, capital_tax>>

loadVars == <<files, paths, tx_raw, loaded, load_error, load_log>>

customVars == <<custom, customPos, customLog>>

fieldVars == <<field_args, fields, fields_error, presented>>

nbpVars == <<urls, rates_list, rates, rates_log>>

ingestVars == <<settled, dropped_settlement_rows, ingest_log>>

vars == <<pc, fifoVars, dateVars, rateVars, loadVars, customVars, fieldVars, nbpVars, ingestVars>>

\* what each component leaves alone
notFifo   == <<dateVars, rateVars, loadVars, customVars, fieldVars, nbpVars, ingestVars>>
notDates  == <<fifoVars, rateVars, loadVars, customVars, fieldVars, nbpVars, ingestVars>>
notRates  == <<dateVars, loadVars, customVars, fieldVars, nbpVars, ingestVars>>
notLoad   == <<fifoVars, dateVars, rateVars, customVars, fieldVars, nbpVars, ingestVars>>
notCustom == <<dateVars, rateVars, loadVars, fieldVars, nbpVars, ingestVars>>
notFields == <<fifoVars, dateVars, rateVars, loadVars, customVars, nbpVars, ingestVars>>
notNbp    == <<fifoVars, dateVars, rateVars, loadVars, customVars, fieldVars, ingestVars>>
notIngest == <<fifoVars, dateVars, rateVars, loadVars, customVars, fieldVars, nbpVars>>

Idle   == "idle"
NaN    == <<>>      \* a missing number or date (float NaN, NaT, None)
NoName == "NaN"     \* a missing string

\* a component that a specification does not run
IdleFifo ==
    /\ merged = Idle /\ year = Idle /\ sellsOrder = Idle /\ sellPos = Idle /\ qty = Idle
    /\ remaining = Idle /\ allocs = Idle /\ oversellLog = Idle /\ noLotsLog = Idle
    /\ totals = Idle
IdleDates ==
    /\ trade_dates = Idle /\ tx_types = Idle /\ settlements = Idle /\ rate_dates = Idle

IdleRates ==
    /\ tx = Idle /\ nbp_rates = Idle /\ missing_rates = Idle /\ section_g = Idle
    /\ capital_tax = Idle
IdleLoad ==
    /\ files = Idle /\ paths = Idle /\ tx_raw = Idle /\ loaded = Idle /\ load_error = Idle
    /\ load_log = Idle
IdleCustom ==
    /\ custom = Idle /\ customPos = Idle /\ customLog = Idle
IdleFields ==
    /\ field_args = Idle /\ fields = Idle /\ fields_error = Idle /\ presented = Idle
IdleIngest ==
    /\ settled = Idle /\ dropped_settlement_rows = Idle /\ ingest_log = Idle
IdleNbp ==
    /\ urls = Idle /\ rates_list = Idle /\ rates = Idle /\ rates_log = Idle

\* ------------------------------------------------------------------ bounds
MaxRows     == 3   \* rows of the table handed to process_fifo
MaxShares   == 2   \* |shares| of a row
MaxDate     == 3   \* settlement dates are 1..MaxDate
DaysPerYear == 2   \* dates 1..DaysPerYear fall in year 0, the next in year 1, ...
MaxTxRows   == 2   \* rows of the table handed to merge_with_rates
MaxRateDate == 3   \* rate-lookup dates and rate-table dates are 1..MaxRateDate
MaxFileRows == 2   \* rows of a CSV file
MaxPaths    == 2   \* paths handed to load_transactions
MaxCustomMerged == 3   \* rows of the table handed to process_custom
MaxCustomRows   == 1   \* rows of the custom-summary file
MaxTradeDate    == 2   \* trade dates of that table are 1..MaxTradeDate
MaxHalfGrosze   == 330 \* total_proceeds is 0, 0.005, 0.010, ... PLN, MaxHalfGrosze steps
MaxDividend     == 8   \* total_dividends is 0.00 .. MaxDividend grosze
MaxSeries   == 1   \* length of the Series handed to the date functions
MaxDay      == 55  \* trade dates are days 0..MaxDay; day 0 is Monday 2024-04-29
MaxUrls     == 2   \* URLs handed to load_nbp_rates
MaxArchiveRows == 2 \* rows of one NBP archive

\* ------------------------------------------------------------- generalities
Min(a, b) == IF a <= b THEN a ELSE b
Max(a, b) == IF a >= b THEN a ELSE b
Abs(a)    == IF a < 0 THEN 0 - a ELSE a

SetMax(S) == CHOOSE x \in S : \A y \in S : y <= x
SetMin(S) == CHOOSE x \in S : \A y \in S : x <= y

RECURSIVE SumSeq(_)
SumSeq(s) == IF s = <<>> THEN 0 ELSE Head(s) + SumSeq(Tail(s))

\* Python's round(x, 2) of the amount num/den grosze (den > 0): to the nearest
\* grosz, a tie to the even one.
Round2(num, den) ==
    LET q == num \div den
        r == num - q * den
    IN  IF 2 * r < den THEN q
        ELSE IF 2 * r > den THEN q + 1
        ELSE IF q % 2 = 0 THEN q ELSE q + 1

\* settlement_date.dt.year
YearOf(d) == (d - 1) \div DaysPerYear

\* ------------------------------------------------------ transaction types
\* the transaction types of the model, and which of the substrings the code
\* looks for each of them contains
TX_TYPES ==
    {"YOU BOUGHT", "YOU SOLD", "YOU BOUGHT RSU####", "YOU BOUGHT ESPP### AS OF 09-11-24",
     "DIVIDEND RECEIVED", "REINVESTMENT REINVEST @ $1.000",
     "NON-RESIDENT TAX DIVIDEND RECEIVED", "NON-RESIDENT TAX ON CAPITAL GAIN",
     "NON-RESIDENT TAX REINVESTMENT REINVEST @ $1.000",
     "JOURNALED WIRE/CHECK FEE"}

SubstringsOf(ttype) ==
    CASE ttype = "YOU BOUGHT" -> {"YOU BOUGHT"}
      [] ttype = "YOU SOLD" -> {"YOU SOLD"}
      [] ttype = "YOU BOUGHT RSU####" -> {"YOU BOUGHT", "RSU"}
      [] ttype = "YOU BOUGHT ESPP### AS OF 09-11-24" -> {"YOU BOUGHT", "ESPP"}
      [] ttype = "DIVIDEND RECEIVED" -> {"DIVIDEND"}
      [] ttype = "REINVESTMENT REINVEST @ $1.000" -> {"REINVESTMENT"}
      [] ttype = "NON-RESIDENT TAX DIVIDEND RECEIVED" -> {"NON-RESIDENT TAX", "DIVIDEND"}
      [] ttype = "NON-RESIDENT TAX ON CAPITAL GAIN" -> {"NON-RESIDENT TAX"}
      [] ttype = "NON-RESIDENT TAX REINVESTMENT REINVEST @ $1.000"
             -> {"NON-RESIDENT TAX", "REINVESTMENT"}
      [] OTHER -> {}

\* `tag in ttype`, str.contains(tag)
Contains(ttype, tag) == tag \in SubstringsOf(ttype)

\* ------------------------------------------------------------ the input table
Dates  == 1..MaxDate
Names  == {"AAA INC.", "BBB INC."}
BUY    == "YOU BOUGHT"
SELL   == "YOU SOLD"
DIV    == "DIVIDEND RECEIVED"

\* str.contains('YOU BOUGHT') / str.contains('YOU SOLD') on the type column
IsBuy(row)  == Contains(row.type, "YOU BOUGHT")
IsSell(row) == Contains(row.type, "YOU SOLD")

\* amount_pln of the row at position i: buys are stored negative, sells
\* positive; the amounts differ from row to row and are not multiples of the
\* share counts.
AmountAt(i, type) ==
    IF type = BUY THEN <<0 - (100 * i + 1)>>
    ELSE IF type = SELL THEN <<150 * i + 1>>
    ELSE <<10 * i>>

TradeShapes ==
    [type : {BUY, SELL}, name : Names \cup {NoName}, q : 1..MaxShares, settlement_date : Dates]
OtherShapes ==
    [type : {DIV}, name : {NoName}, q : {0}, settlement_date : {1}]
RowShapes == TradeShapes \cup OtherShapes

MakeRow(i, sh) ==
    [type            |-> sh.type,
     name            |-> sh.name,
     shares          |-> IF sh.type = SELL THEN 0 - sh.q ELSE sh.q,
     amount_pln      |-> AmountAt(i, sh.type),
     settlement_date |-> sh.settlement_date]

TableOf(t) == [i \in DOMAIN t |-> MakeRow(i, t[i])]

YearArgs == {<<>>} \cup { <<YearOf(d)>> : d \in Dates }

\* ------------------------------------------------------------- process_fifo
BuyIdx(tbl)  == { i \in DOMAIN tbl : IsBuy(tbl[i]) }
SellIdx(tbl) == { i \in DOMAIN tbl : IsSell(tbl[i]) }

\* SellsInYear with the year filter forgotten
SellsInYear_NoFilter(tbl, yr) == SellIdx(tbl)

\* `sells = sells[sells['settlement_date'].dt.year == year]` when year is given
SellsInYear(tbl, yr) ==
    IF yr = <<>> THEN SellIdx(tbl)
    ELSE { i \in SellIdx(tbl) : YearOf(tbl[i].settlement_date) = yr[1] }

\* sort_values('settlement_date'): every ordering of the index labels S by
\* ascending settlement date.  The default sort kind is not stable, so the
\* order of rows with equal dates is whatever the sort produces.
SortedOrders(tbl, S) ==
    { o \in [1..Cardinality(S) -> S] :
        /\ \A i, j \in DOMAIN o : i # j => o[i] # o[j]
        /\ \A i, j \in DOMAIN o :
              i < j => tbl[o[i]].settlement_date <= tbl[o[j]].settlement_date }

\* _open_buy_lots: the index labels of the buys with remaining > 0, filtered
\* to the sale's investment name when that name is not NaN.  (A table without
\* the 'Investment name' column behaves as one whose names are all NaN.)
OpenBuyLots(tbl, rem, sale_investment) ==
    LET open_lots == { i \in DOMAIN rem : rem[i] > 0 }
    IN  IF sale_investment # NoName
        THEN { i \in open_lots : tbl[i].name = sale_investment }
        ELSE open_lots

\* _open_buy_lots(...)['remaining'].sum()
RECURSIVE SumOver(_, _)
SumOver(f, S) ==
    IF S = {} THEN 0
    ELSE LET x == CHOOSE y \in S : TRUE IN f[x] + SumOver(f, S \ {x})

AvailableQty(tbl, rem, sale_investment) ==
    SumOver(rem, OpenBuyLots(tbl, rem, sale_investment))

\* idx = open_lots.index.min()
PickLot(tbl, open_lots) == SetMin(open_lots)

\* MatchQty without the clamp to the lot's remaining quantity
MatchQty_Unclamped(q, lot_remaining) == q

\* match = min(qty, lot['remaining'])
MatchQty(q, lot_remaining) == Min(q, lot_remaining)

\* OversellDetected with >= for >
OversellDetected_Ge(q, available_qty) == q >= available_qty

\* check_fifo_sale_not_oversell: whether the error is logged
OversellDetected(q, available_qty) == q > available_qty

\* round(match * price_per, 2), price_per = sale['amount_pln'] / qty if qty else 0
\* (qty is the sale's full quantity, taken before the while loop)
\* a NaN amount_pln gives a NaN price and NaN proceeds
AllocProceeds(sale, match) ==
    LET full == Abs(sale.shares)
    IN  IF full = 0 THEN <<0>>
        ELSE IF sale.amount_pln = NaN THEN NaN
        ELSE <<Round2(match * sale.amount_pln[1], full)>>

\* AllocCost charging the whole lot whatever part of it is matched
AllocCost_WholeLot(lot, match) ==
    IF lot.amount_pln = NaN THEN NaN ELSE <<0 - lot.amount_pln[1]>>

\* round(match * cost_per, 2), cost_per = (-lot['amount_pln']) / lot['shares'] if lot['shares'] else 0
AllocCost(lot, match) ==
    IF lot.shares = 0 THEN <<0>>
    ELSE IF lot.amount_pln = NaN THEN NaN
    ELSE <<Round2(match * (0 - lot.amount_pln[1]), lot.shares)>>

CurrentSale == sellsOrder[sellPos]

InitFifo ==
    /\ pc = "fifo_start"
    /\ \E n \in 1..MaxRows : \E t \in [1..n -> RowShapes] : merged = TableOf(t)
    /\ year \in YearArgs
    /\ sellsOrder = <<>>
    /\ sellPos = 0
    /\ qty = 0
    /\ remaining = <<>>
    /\ allocs = <<>>
    /\ oversellLog = <<>>
    /\ noLotsLog = <<>>
    /\ totals = <<>>
    /\ IdleDates /\ IdleRates /\ IdleLoad /\ IdleCustom /\ IdleFields /\ IdleNbp /\ IdleIngest

\* lines 278-283: select and sort buys and sells, filter the sells by year,
\* remaining = shares, allocs = []
FifoStart ==
    /\ pc = "fifo_start"
    /\ \E o \in SortedOrders(merged, SellsInYear(merged, year)) : sellsOrder' = o
    /\ remaining' = [i \in BuyIdx(merged) |-> merged[i].shares]
    /\ allocs' = <<>>
    /\ pc' = "fifo_for"
    /\ UNCHANGED <<merged, year, sellPos, qty, oversellLog, noLotsLog, totals>>
    /\ UNCHANGED notFifo

\* lines 284-289: the for loop takes the next sell; qty, the available
\* quantity and the oversell check
FifoNextSale ==
    /\ pc = "fifo_for"
    /\ sellPos < Len(sellsOrder)
    /\ LET s   == sellsOrder[sellPos + 1]
           q   == Abs(merged[s].shares)
           av  == AvailableQty(merged, remaining, merged[s].name)
       IN  /\ sellPos' = sellPos + 1
           /\ qty' = q
           /\ oversellLog' =
                IF OversellDetected(q, av)
                THEN Append(oversellLog, [sale |-> s, qty |-> q, available_qty |-> av])
                ELSE oversellLog
    /\ pc' = "fifo_while"
    /\ UNCHANGED <<merged, year, sellsOrder, remaining, allocs, noLotsLog, totals>>
    /\ UNCHANGED notFifo

\* lines 290-303: one iteration of `while qty > 0` that finds an open lot
FifoMatchLot ==
    /\ pc = "fifo_while"
    /\ qty > 0
    /\ LET sale      == merged[CurrentSale]
           open_lots == OpenBuyLots(merged, remaining, sale.name)
       IN  /\ open_lots # {}
           /\ LET idx   == PickLot(merged, open_lots)
                  lot   == merged[idx]
                  match == MatchQty(qty, remaining[idx])
              IN  /\ allocs' = Append(allocs,
                        [proceeds |-> AllocProceeds(sale, match),
                         cost     |-> AllocCost(lot, match),
                         sale     |-> CurrentSale,     \* bookkeeping of the model:
                         lot      |-> idx,             \* which sell, which lot,
                         match    |-> match])          \* how many shares
                  /\ remaining' = [remaining EXCEPT ![idx] = @ - match]
                  /\ qty' = qty - match
    /\ pc' = "fifo_while"
    /\ UNCHANGED <<merged, year, sellsOrder, sellPos, oversellLog, noLotsLog, totals>>
    /\ UNCHANGED notFifo

\* lines 291-293: no open lot is left: the error is logged and the loop breaks
FifoNoOpenLots ==
    /\ pc = "fifo_while"
    /\ qty > 0
    /\ OpenBuyLots(merged, remaining, merged[CurrentSale].name) = {}
    /\ noLotsLog' = Append(noLotsLog, [sale |-> CurrentSale, unmatched |-> qty])
    /\ pc' = "fifo_for"
    /\ UNCHANGED <<merged, year, sellsOrder, sellPos, qty, remaining, allocs,
                   oversellLog, totals>>
    /\ UNCHANGED notFifo

\* line 290: the while condition fails (qty = 0): back to the for loop
FifoSaleDone ==
    /\ pc = "fifo_while"
    /\ qty <= 0
    /\ pc' = "fifo_for"
    /\ UNCHANGED <<fifoVars, notFifo>>

\* Python's sum() of floats: NaN as soon as one term is NaN
AddNaN(a, b) == IF a = NaN \/ b = NaN THEN NaN ELSE <<a[1] + b[1]>>
SubNaN(a, b) == IF a = NaN \/ b = NaN THEN NaN ELSE <<a[1] - b[1]>>

RECURSIVE SumProceeds(_)
SumProceeds(s) == IF s = <<>> THEN <<0>> ELSE AddNaN(Head(s).proceeds, SumProceeds(Tail(s)))

RECURSIVE SumCost(_)
SumCost(s) == IF s = <<>> THEN <<0>> ELSE AddNaN(Head(s).cost, SumCost(Tail(s)))

\* lines 304-308: the totals
FifoFinish ==
    /\ pc = "fifo_for"
    /\ sellPos = Len(sellsOrder)
    /\ LET total_proceeds == SumProceeds(allocs)
           total_costs    == SumCost(allocs)
           total_gain     == SubNaN(total_proceeds, total_costs)
       IN  totals' = <<total_proceeds, total_costs, total_gain>>
    /\ pc' = "fifo_done"
    /\ UNCHANGED <<merged, year, sellsOrder, sellPos, qty, remaining, allocs,
                   oversellLog, noLotsLog>>
    /\ UNCHANGED notFifo

NextFifo ==
    \/ FifoStart
    \/ FifoNextSale
    \/ FifoMatchLot
    \/ FifoNoOpenLots
    \/ FifoSaleDone
    \/ FifoFinish

SpecFifo == InitFifo /\ [][NextFifo]_vars

\* ======================================================= claims, process_fifo
SeqToSet(s) == { s[i] : i \in DOMAIN s }

RECURSIVE SumMatchWhere(_, _)
SumMatchWhere(s, sale) ==
    IF s = <<>> THEN 0
    ELSE (IF Head(s).sale = sale THEN Head(s).match ELSE 0) + SumMatchWhere(Tail(s), sale)

RECURSIVE SumUnmatchedWhere(_, _)
SumUnmatchedWhere(s, sale) ==
    IF s = <<>> THEN 0
    ELSE (IF Head(s).sale = sale THEN Head(s).unmatched ELSE 0)
         + SumUnmatchedWhere(Tail(s), sale)

RECURSIVE SumShortfall(_)
SumShortfall(s) ==
    IF s = <<>> THEN 0
    ELSE (Head(s).qty - Head(s).available_qty) + SumShortfall(Tail(s))

MatchedOf(s)   == SumMatchWhere(allocs, s)
UnmatchedOf(s) == SumUnmatchedWhere(noLotsLog, s)
OversellsOf(s) == { e \in SeqToSet(oversellLog) : e.sale = s }

TradeIdx      == BuyIdx(merged) \cup SellIdx(merged)
OneSecurity   == \E n \in Names \cup {NoName} : \A i \in TradeIdx : merged[i].name = n
TotalBought   == SumOver([i \in BuyIdx(merged) |-> merged[i].shares], BuyIdx(merged))
TotalSold     == SumOver([i \in SellIdx(merged) |-> Abs(merged[i].shares)], SellIdx(merged))
SumRemaining  == SumOver(remaining, DOMAIN remaining)

\* C1: conservation.  When process_fifo has matched every sell of a table
\* that holds one security (no year filter), the lots' remaining quantities
\* sum to bought - sold plus the shortfall the Oversell reports state
\* (qty - available), that shortfall is exactly the unmatched quantity
\* reported when the lots ran out, and it is 0 when no Oversell was reported.
C1_Conservation ==
    (pc = "fifo_done" /\ year = <<>> /\ OneSecurity) =>
        /\ SumRemaining = TotalBought - TotalSold + SumShortfall(oversellLog)
        /\ SumShortfall(oversellLog) =
              SumOver([s \in SellIdx(merged) |-> UnmatchedOf(s)], SellIdx(merged))
        /\ (oversellLog = <<>> => SumRemaining = TotalBought - TotalSold)

\* C1 witness: a one-security run has ended in which a sell was partly
\* matched and an Oversell was reported for it.
C1_Witness ==
    /\ pc = "fifo_done" /\ year = <<>> /\ OneSecurity
    /\ \E e \in SeqToSet(oversellLog) : e.available_qty > 0
    /\ Len(allocs) >= 1

\* C2 (the claim as stated): whenever process_fifo allocates, the lot it
\* takes from has the earliest settlement date among the open lots (remaining
\* > 0) of that lot's security, whatever the index labels of the buys.
C2_EarliestLotFirst ==
    [][ (pc = "fifo_while" /\ Len(allocs') = Len(allocs) + 1) =>
          LET a == allocs'[Len(allocs')]
          IN  \A i \in DOMAIN remaining :
                (remaining[i] > 0 /\ merged[i].name = merged[a.lot].name) =>
                    merged[a.lot].settlement_date <= merged[i].settlement_date ]_vars

\* C3 (the claim as stated): every allocation pairs a sell with a buy lot of
\* the same security identity, also for a sell whose identifier is absent.
C3_SameSecurity ==
    \A a \in SeqToSet(allocs) : merged[a.lot].name = merged[a.sale].name

\* C4: when the run has ended, every sell process_fifo took is accounted for
\* (matched + reported unmatched = its quantity), also the sells after an
\* oversold one; a sell has an Oversell report exactly when part of it stayed
\* unmatched; the report states the sell's quantity and the available
\* quantity, the matched quantity is that available quantity, the excess is
\* the unmatched quantity; and each allocation's proceeds and cost are those
\* of its matched shares (to the rounding of one grosz).
C4_OversellHandled ==
    pc = "fifo_done" =>
        \A k \in DOMAIN sellsOrder :
            LET s == sellsOrder[k]
                q == Abs(merged[s].shares)
            IN  /\ MatchedOf(s) + UnmatchedOf(s) = q
                /\ (UnmatchedOf(s) > 0) <=> (OversellsOf(s) # {})
                /\ \A e \in OversellsOf(s) :
                      /\ e.qty = q
                      /\ e.available_qty < q
                      /\ e.available_qty = MatchedOf(s)
                      /\ e.qty - e.available_qty = UnmatchedOf(s)
                /\ \A a \in SeqToSet(allocs) :
                      a.sale = s =>
                        /\ a.match <= q
                        /\ 2 * Abs(a.proceeds[1] * q - a.match * merged[s].amount_pln[1]) <= q
                        /\ 2 * Abs(a.cost[1] * merged[a.lot].shares
                                   + a.match * merged[a.lot].amount_pln[1])
                              <= merged[a.lot].shares

\* C4 witness: the run has ended, its first sell was oversold and partly
\* matched, and a later sell was processed after it.
C4_Witness ==
    /\ pc = "fifo_done"
    /\ Len(sellsOrder) >= 2
    /\ \E e \in SeqToSet(oversellLog) : e.sale = sellsOrder[1] /\ e.available_qty > 0

\* C5: with a target year, every allocation belongs to a sell settling in
\* that year; when the run has ended, a sell of that year is fully accounted
\* for and is left unmatched only if no lot of its security, of whatever year,
\* is still open, a sell of another year has no allocation and no report, and
\* the returned totals are the sums over the allocations of that year's sells.
C5_YearFilter ==
    year # <<>> =>
        /\ \A a \in SeqToSet(allocs) : YearOf(merged[a.sale].settlement_date) = year[1]
        /\ pc = "fifo_done" =>
            /\ \A s \in SellIdx(merged) :
                 IF YearOf(merged[s].settlement_date) = year[1]
                 THEN /\ MatchedOf(s) + UnmatchedOf(s) = Abs(merged[s].shares)
                      /\ UnmatchedOf(s) > 0 =>
                            OpenBuyLots(merged, remaining, merged[s].name) = {}
                 ELSE MatchedOf(s) = 0 /\ UnmatchedOf(s) = 0 /\ OversellsOf(s) = {}
            /\ totals[1] = SumProceeds(allocs)
            /\ totals[2] = SumCost(allocs)
            /\ totals[3] = <<totals[1][1] - totals[2][1]>>

\* C5 witness: a run with a target year has ended in which a sell of that
\* year took shares from a lot settled in another year, and a sell of
\* another year was in the table.
C5_Witness ==
    /\ pc = "fifo_done" /\ year # <<>>
    /\ \E a \in SeqToSet(allocs) : YearOf(merged[a.lot].settlement_date) # year[1]
    /\ \E s \in SellIdx(merged) : YearOf(merged[s].settlement_date) # year[1]

\* =================== calculate_settlement_dates and calculate_rate_dates
\* Calendar days are integers: day 0 is Monday 2024-04-29, day 29 is Tuesday
\* 2024-05-28.  The holiday sets are those of the two calendars in the window
\* the model looks at (2024-04-22 .. 2024-06-30).
Weekday(d) == (d + 700) % 7          \* 0 = Monday, ..., 5 = Saturday, 6 = Sunday

\* SWITCH_DATE = pd.Timestamp('2024-05-28')
SWITCH_DATE == 29

\* USSettlementHolidayCalendar (federal holidays plus Good Friday): Memorial
\* Day 2024-05-27 and Juneteenth 2024-06-19
US_HOLIDAYS == {28, 51}

\* workalendar's Poland(): Labour Day 05-01, Constitution Day 05-03, Pentecost
\* 05-19 (a Sunday), Corpus Christi 05-30
PL_HOLIDAYS == {2, 4, 20, 31}

IsUSBusinessDay(d) == Weekday(d) < 5 /\ d \notin US_HOLIDAYS
IsPLWorkingDay(d)  == Weekday(d) < 5 /\ d \notin PL_HOLIDAYS

\* numpy.busday_offset(d, n, roll='backward') for n > 0, which is what
\* d + CustomBusinessDay(n) evaluates: d is rolled back to a business day if
\* it is none, then moved n business days forward.
RECURSIVE RollBackward(_)
RollBackward(d) == IF IsUSBusinessDay(d) THEN d ELSE RollBackward(d - 1)

RECURSIVE NextUSBusinessDay(_)
NextUSBusinessDay(d) ==
    IF IsUSBusinessDay(d + 1) THEN d + 1 ELSE NextUSBusinessDay(d + 1)

RECURSIVE StepUSBusinessDays(_, _)
StepUSBusinessDays(d, n) ==
    IF n = 0 THEN d ELSE StepUSBusinessDays(NextUSBusinessDay(d), n - 1)

AddUSBusinessDays(d, n) == StepUSBusinessDays(RollBackward(d), n)

\* _MARKET_SETTLEMENT_TAGS = ('YOU BOUGHT', 'YOU SOLD', 'ESPP')
MARKET_SETTLEMENT_TAGS == {"YOU BOUGHT", "YOU SOLD", "ESPP"}

\* IsMarketTrade leaving out the RSU vests
IsMarketTrade_NotRSU(ttype) ==
    /\ \E tag \in MARKET_SETTLEMENT_TAGS : Contains(ttype, tag)
    /\ ~Contains(ttype, "RSU")

\* any(tag in ttype for tag in _MARKET_SETTLEMENT_TAGS)
IsMarketTrade(ttype) == \E tag \in MARKET_SETTLEMENT_TAGS : Contains(ttype, tag)

\* SettlementOffset with <= for <
SettlementOffset_Le(d) == IF d <= SWITCH_DATE THEN 2 ELSE 1

\* _US_BD2 if d < SWITCH_DATE else _US_BD1
SettlementOffset(d) == IF d < SWITCH_DATE THEN 2 ELSE 1

\* the body of the loop of calculate_settlement_dates, for one (d, ttype)
SettlementOf(d, ttype) ==
    IF d = NaN THEN NaN
    ELSE IF IsMarketTrade(ttype) THEN <<AddUSBusinessDays(d[1], SettlementOffset(d[1]))>>
    ELSE d

\* PrevPLWorkingDay as the calendar day before
PrevPLWorkingDay_Yesterday(d) == d - 1

\* pl_calendar.add_working_days(day, -1): walk back one day at a time until
\* one working day has been counted
RECURSIVE PrevPLWorkingDay(_)
PrevPLWorkingDay(d) ==
    IF IsPLWorkingDay(d - 1) THEN d - 1 ELSE PrevPLWorkingDay(d - 1)

\* the body of the loop of calculate_rate_dates, for one settlement date
RateDateOf(d) == IF d = NaN THEN NaN ELSE <<PrevPLWorkingDay(d[1])>>

TradeDates == {NaN} \cup { <<d>> : d \in 0..MaxDay }

InitDates ==
    /\ pc = "dates_start"
    /\ \E n \in 1..MaxSeries :
          /\ trade_dates \in [1..n -> TradeDates]
          /\ tx_types \in [1..n -> TX_TYPES]
    /\ settlements = <<>>
    /\ rate_dates = <<>>
    /\ IdleFifo /\ IdleRates /\ IdleLoad /\ IdleCustom /\ IdleFields /\ IdleNbp /\ IdleIngest

\* calculate_settlement_dates(trade_dates, tx_types)
CalculateSettlementDates ==
    /\ pc = "dates_start"
    /\ settlements' = [i \in DOMAIN trade_dates |-> SettlementOf(trade_dates[i], tx_types[i])]
    /\ pc' = "dates_settled"
    /\ UNCHANGED <<trade_dates, tx_types, rate_dates>>
    /\ UNCHANGED notDates

\* calculate_rate_dates(settlement_dates)
CalculateRateDates ==
    /\ pc = "dates_settled"
    /\ rate_dates' = [i \in DOMAIN settlements |-> RateDateOf(settlements[i])]
    /\ pc' = "dates_done"
    /\ UNCHANGED <<trade_dates, tx_types, settlements>>
    /\ UNCHANGED notDates

NextDates ==
    \/ CalculateSettlementDates
    \/ CalculateRateDates

SpecDates == InitDates /\ [][NextDates]_vars

\* ================================================= claims, the date rules
USBusinessDaysBetween(a, b) == { x \in (a + 1)..b : IsUSBusinessDay(x) }
PLWorkingDaysBetween(a, b)  == { x \in (a + 1)..b : IsPLWorkingDay(x) }

\* C6: a market trade with a trade date d settles on the K-th US business day
\* after d (the settlement date is a business day and exactly K business days
\* lie in (d, settlement]), K = 2 for d before 2024-05-28 and K = 1 from that
\* date on; a trade of Friday 2024-05-24, the business day before the
\* cutover, settles T+2 on 2024-05-29, a trade of 2024-05-28 settles T+1 on
\* 2024-05-29.
C6_SettlementRegime ==
    pc # "dates_start" =>
        \A i \in DOMAIN settlements :
            (trade_dates[i] # NaN /\ IsMarketTrade(tx_types[i])) =>
                LET d == trade_dates[i][1]
                    s == settlements[i][1]
                    K == IF d < SWITCH_DATE THEN 2 ELSE 1
                IN  /\ settlements[i] # NaN
                    /\ IsUSBusinessDay(s)
                    /\ Cardinality(USBusinessDaysBetween(d, s)) = K
                    /\ (d = 25 => s = 30)
                    /\ (d = SWITCH_DATE => s = SWITCH_DATE + 1)

\* C6 witness: a sale traded on the cutover date itself has been settled.
C6_Witness ==
    /\ pc = "dates_settled"
    /\ \E i \in DOMAIN settlements :
          /\ tx_types[i] = "YOU SOLD" /\ trade_dates[i] = <<SWITCH_DATE>>
          /\ settlements[i] = <<SWITCH_DATE + 1>>

\* C7: for every row with a trade date, the settlement date is not before
\* the trade date, the rate-lookup date is strictly before the settlement
\* date, is a Polish working day, and no Polish working day lies strictly
\* between the two: also when the settlement date is itself no working day.
C7_DateOrder ==
    pc = "dates_done" =>
        \A i \in DOMAIN rate_dates :
            trade_dates[i] # NaN =>
                /\ settlements[i] # NaN /\ rate_dates[i] # NaN
                /\ settlements[i][1] >= trade_dates[i][1]
                /\ rate_dates[i][1] < settlements[i][1]
                /\ IsPLWorkingDay(rate_dates[i][1])
                /\ PLWorkingDaysBetween(rate_dates[i][1], settlements[i][1] - 1) = {}

\* C7 witness: a row that settled on a Polish holiday or weekend day has got
\* its rate-lookup date.
C7_Witness ==
    /\ pc = "dates_done"
    /\ \E i \in DOMAIN rate_dates :
          /\ settlements[i] # NaN
          /\ ~IsPLWorkingDay(settlements[i][1])
          /\ IsMarketTrade(tx_types[i])

\* ============================= merge_with_rates and the totals that follow
FUND_NAME == "FID TREASURY ONLY MMKT FUND CL OUS"
NRT_DIV   == "NON-RESIDENT TAX DIVIDEND RECEIVED"
NRT_CG    == "NON-RESIDENT TAX ON CAPITAL GAIN"
NRT_REINV == "NON-RESIDENT TAX REINVESTMENT REINVEST @ $1.000"

RateDays == 1..MaxRateDate

\* the published rate of a day, PLN per USD: a different one every day
RateAt(d) == 3 + d

\* amount_usd (in cents) of the row at position i
AmountUsdAt(i, type) ==
    IF type = BUY THEN 0 - (100 * i + 1)
    ELSE IF type = SELL THEN 150 * i + 1
    ELSE IF type = DIV THEN 10 * i + 3
    ELSE 0 - (i + 1)

TxShapes ==
    [type : {BUY, SELL}, name : {"AAA INC."}, q : 1..MaxShares, rate_date : RateDays]
    \cup [type : {DIV}, name : {"AAA INC.", FUND_NAME}, q : {0}, rate_date : RateDays]
    \cup [type : {NRT_DIV, NRT_CG, NRT_REINV}, name : {NoName}, q : {0}, rate_date : RateDays]

\* a row as calculate_pit38 hands it to merge_with_rates: the settlement date
\* is the working day after the rate-lookup date
MakeTxRow(i, sh) ==
    [type            |-> sh.type,
     name            |-> sh.name,
     shares          |-> IF sh.type = SELL THEN 0 - sh.q ELSE sh.q,
     amount_usd      |-> AmountUsdAt(i, sh.type),
     settlement_date |-> sh.rate_date + 1,
     rate_date       |-> sh.rate_date]

\* the rate table load_nbp_rates returns for the set D of published days:
\* one row per date, sorted by date
RECURSIVE RateTable(_)
RateTable(D) ==
    IF D = {} THEN <<>>
    ELSE LET m == CHOOSE x \in D : \A y \in D : y <= x
         IN  Append(RateTable(D \ {m}), [date |-> m, rate |-> RateAt(m)])

\* sort_values('rate_date'): the orderings of the rows by ascending rate_date
\* (rows of equal date in whatever order the sort leaves them)
SortedByRateDate(tbl) ==
    { o \in [DOMAIN tbl -> DOMAIN tbl] :
        /\ \A i, j \in DOMAIN o : i # j => o[i] # o[j]
        /\ \A i, j \in DOMAIN o : i < j => tbl[o[i]].rate_date <= tbl[o[j]].rate_date }

\* AsofRate taking the first rate on or after the key (direction='forward')
RECURSIVE AsofRate_Forward(_, _)
AsofRate_Forward(rates_sorted, key) ==
    IF rates_sorted = <<>> THEN NaN
    ELSE IF Head(rates_sorted).date >= key THEN <<Head(rates_sorted).rate>>
    ELSE AsofRate_Forward(Tail(rates_sorted), key)

\* pd.merge_asof(..., on='rate_date', direction='backward') for one left row:
\* the rate of the last row of the sorted rate table whose date is <= key,
\* NaN when there is none
RECURSIVE AsofRate(_, _)
AsofRate(rates_sorted, key) ==
    IF rates_sorted = <<>> THEN NaN
    ELSE LET last == rates_sorted[Len(rates_sorted)]
         IN  IF last.date <= key THEN <<last.rate>>
             ELSE AsofRate(SubSeq(rates_sorted, 1, Len(rates_sorted) - 1), key)

\* merged['amount_usd'] * merged['rate']
AmountPln(amount_usd, rate) == IF rate = NaN THEN NaN ELSE <<amount_usd * rate[1]>>

MergedRow(row, rates_sorted) ==
    LET rate == AsofRate(rates_sorted, row.rate_date)
    IN  [type            |-> row.type,
         name            |-> row.name,
         shares          |-> row.shares,
         amount_usd      |-> row.amount_usd,
         settlement_date |-> row.settlement_date,
         rate_date       |-> row.rate_date,
         rate            |-> rate,
         amount_pln      |-> AmountPln(row.amount_usd, rate)]

YearArgsRates == {<<>>} \cup { <<YearOf(d + 1)>> : d \in RateDays }

InitRates ==
    /\ pc = "merge_start"
    /\ \E n \in 1..MaxTxRows : \E t \in [1..n -> TxShapes] :
          tx = [i \in 1..n |-> MakeTxRow(i, t[i])]
    /\ \E D \in (SUBSET RateDays) \ {{}} : nbp_rates = RateTable(D)
    /\ year \in YearArgsRates
    /\ merged = <<>>
    /\ missing_rates = 0
    /\ section_g = <<>>
    /\ capital_tax = <<>>
    /\ sellsOrder = <<>> /\ sellPos = 0 /\ qty = 0 /\ remaining = <<>> /\ allocs = <<>>
    /\ oversellLog = <<>> /\ noLotsLog = <<>> /\ totals = <<>>
    /\ IdleDates /\ IdleLoad /\ IdleCustom /\ IdleFields /\ IdleNbp /\ IdleIngest

\* merge_with_rates(tx, nbp_rates); calculate_pit38 then calls process_fifo
MergeWithRates ==
    /\ pc = "merge_start"
    /\ \E o \in SortedByRateDate(tx) :
          LET tx_sorted == [i \in DOMAIN tx |-> tx[o[i]]]
              result    == [i \in DOMAIN tx |-> MergedRow(tx_sorted[i], nbp_rates)]
              missing   == Cardinality({ i \in DOMAIN result : result[i].rate = NaN })
          IN  /\ merged' = result
              /\ missing_rates' = missing
    /\ pc' = "fifo_start"
    /\ UNCHANGED <<tx, nbp_rates, section_g, capital_tax>>
    /\ UNCHANGED <<year, sellsOrder, sellPos, qty, remaining, allocs, oversellLog,
                   noLotsLog, totals>>
    /\ UNCHANGED notRates

\* `df = merged[merged['settlement_date'].dt.year == year]` when year is given
RowsOfYear(tbl, yr) ==
    IF yr = <<>> THEN DOMAIN tbl
    ELSE { i \in DOMAIN tbl : YearOf(tbl[i].settlement_date) = yr[1] }

\* Series.sum() of the amount_pln of the rows S: pandas skips NaN
RECURSIVE PandasSum(_, _)
PandasSum(tbl, S) ==
    IF S = {} THEN 0
    ELSE LET i == CHOOSE x \in S : TRUE
         IN  (IF tbl[i].amount_pln = NaN THEN 0 ELSE tbl[i].amount_pln[1])
             + PandasSum(tbl, S \ {i})

\* _is_fund_like_investment
IsFundLike(name) ==
    /\ name # NoName
    /\ name \in {FUND_NAME}

\* lines 579-582: foreign_tax_mask of compute_section_g_income_components
SectionGTaxRows(tbl, df) ==
    { i \in df : Contains(tbl[i].type, "NON-RESIDENT TAX")
                 /\ Contains(tbl[i].type, "DIVIDEND") }

\* lines 627-629: foreign_tax_mask & ~dividend_context_mask of
\* compute_foreign_tax_capital_gains
CapitalGainsTaxRows(tbl, df) ==
    { i \in df : Contains(tbl[i].type, "NON-RESIDENT TAX")
                 /\ ~(Contains(tbl[i].type, "DIVIDEND")
                      \/ Contains(tbl[i].type, "REINVESTMENT")) }

\* compute_section_g_income_components(merged, year)
SectionGComponents(tbl, yr) ==
    LET df        == RowsOfYear(tbl, yr)
        div_rows  == { i \in df : tbl[i].type = "DIVIDEND RECEIVED" }
        fund_rows == { i \in div_rows : IsFundLike(tbl[i].name) }
        fund_distributions == Abs(Round2(PandasSum(tbl, fund_rows), 1))
        equity_dividends   == Abs(Round2(PandasSum(tbl, div_rows \ fund_rows), 1))
        tax_rows  == SectionGTaxRows(tbl, df)
        foreign_tax == Max(Round2(0 - PandasSum(tbl, tax_rows), 1), 0)
    IN  [section_g_total_income       |-> <<Round2(equity_dividends + fund_distributions, 1)>>,
         section_g_equity_dividends   |-> <<equity_dividends>>,
         section_g_fund_distributions |-> <<fund_distributions>>,
         section_g_foreign_tax        |-> <<foreign_tax>>]

\* compute_foreign_tax_capital_gains(merged, year)
ForeignTaxCapitalGains(tbl, yr) ==
    LET df       == RowsOfYear(tbl, yr)
        tax_rows == CapitalGainsTaxRows(tbl, df)
    IN  Round2(Max(0 - PandasSum(tbl, tax_rows), 0), 1)

\* calculate_pit38, line 844
ComputeSectionG ==
    /\ pc = "fifo_done"
    /\ section_g' = SectionGComponents(merged, year)
    /\ pc' = "section_g_done"
    /\ UNCHANGED <<tx, nbp_rates, missing_rates, capital_tax, fifoVars>>
    /\ UNCHANGED notRates

\* calculate_pit38, line 852
ComputeForeignTaxCapitalGains ==
    /\ pc = "section_g_done"
    /\ capital_tax' = <<ForeignTaxCapitalGains(merged, year)>>
    /\ pc' = "totals_done"
    /\ UNCHANGED <<tx, nbp_rates, missing_rates, section_g, fifoVars>>
    /\ UNCHANGED notRates

NextRates ==
    \/ MergeWithRates
    \/ FifoStart
    \/ FifoNextSale
    \/ FifoMatchLot
    \/ FifoNoOpenLots
    \/ FifoSaleDone
    \/ FifoFinish
    \/ ComputeSectionG
    \/ ComputeForeignTaxCapitalGains

SpecRates == InitRates /\ [][NextRates]_vars

\* ------------------------------------------------ claims on merge_with_rates
Merged == pc # "merge_start" /\ pc # Idle /\ tx # <<>>

RateTableDates == { nbp_rates[k].date : k \in DOMAIN nbp_rates }

\* the dates of the rate table on or before day d
DatesOnOrBefore(d) == { x \in RateTableDates : x <= d }

\* the rate the table publishes for the date x
PublishedRate(x) == (CHOOSE k \in DOMAIN nbp_rates : nbp_rates[k].date = x)

\* C8: after merge_with_rates every row carries the rate published for the
\* greatest rate-table date on or before its rate-lookup date (and no rate when
\* there is no such date); a lookup date without a published rate takes the most
\* recent earlier rate, and no row carries the rate of a date after its lookup
\* date.  The rows are those of tx, each with its own lookup date.
C8_BackwardFill ==
    Merged =>
        /\ Len(merged) = Len(tx)
        /\ \A r \in SeqToSet(tx) :
              Cardinality({ i \in DOMAIN merged : merged[i].rate_date = r.rate_date
                                                  /\ merged[i].amount_usd = r.amount_usd })
              = Cardinality({ j \in DOMAIN tx : tx[j] = r })
        /\ \A i \in DOMAIN merged :
              LET E == DatesOnOrBefore(merged[i].rate_date)
              IN  /\ E = {} => merged[i].rate = NaN
                  /\ E # {} =>
                        /\ merged[i].rate = <<nbp_rates[PublishedRate(SetMax(E))].rate>>
                        /\ \A x \in RateTableDates :
                              x > merged[i].rate_date =>
                                  merged[i].rate # <<nbp_rates[PublishedRate(x)].rate>>

\* a merged row whose lookup date has no published rate, with a rate published
\* before it and another after it
C8_Witness ==
    /\ Merged
    /\ \E i \in DOMAIN merged :
          /\ merged[i].rate_date \notin RateTableDates
          /\ \E x \in RateTableDates : x < merged[i].rate_date
          /\ \E x \in RateTableDates : x > merged[i].rate_date
          /\ merged[i].rate # NaN

\* the rows of the filing year that have no rate
RowsWithoutRate == { i \in RowsOfYear(merged, year) : merged[i].rate = NaN }

\* C9: when a row's lookup date has no rate-table date on or before it, the
\* missing rate is reported and the row's PLN amount is indeterminate, and every
\* total the row belongs to (proceeds and cost of its allocations, dividend or
\* fund income, withholding tax) is indeterminate as well rather than a number
\* that counts the row as zero.
C9_MissingRateNotCountedAsZero ==
    pc = "totals_done" =>
        \A i \in RowsWithoutRate :
            /\ missing_rates > 0
            /\ merged[i].amount_pln = NaN
            /\ (\E k \in DOMAIN allocs : allocs[k].sale = i) => totals[1] = NaN
            /\ (\E k \in DOMAIN allocs : allocs[k].lot = i) => totals[2] = NaN
            /\ (merged[i].type = DIV /\ IsFundLike(merged[i].name))
                   => section_g.section_g_fund_distributions = NaN
            /\ (merged[i].type = DIV /\ ~IsFundLike(merged[i].name))
                   => section_g.section_g_equity_dividends = NaN
            /\ merged[i].type = DIV => section_g.section_g_total_income = NaN
            /\ merged[i].type = NRT_DIV => section_g.section_g_foreign_tax = NaN
            /\ merged[i].type = NRT_CG => capital_tax = NaN

\* the part of C9 the code keeps: the missing rate is counted, the row's amount
\* is NaN, and the FIFO totals a NaN allocation enters are NaN
C9_FifoTotalsIndeterminate ==
    pc = "totals_done" =>
        \A i \in RowsWithoutRate :
            /\ missing_rates > 0
            /\ merged[i].amount_pln = NaN
            /\ (\E k \in DOMAIN allocs : allocs[k].sale = i) => totals[1] = NaN
            /\ (\E k \in DOMAIN allocs : allocs[k].lot = i) => totals[2] = NaN

\* ======================================================= load_transactions
PATHS == {"a.csv", "b.csv"}

FOOTER_TEXT == "Unless noted otherwise, all dates are trade dates"

\* the rows a CSV file can hold, as pd.read_csv returns them (NoName: empty cell)
RAW_BUY ==
    [date |-> "Jan-05-2024", type |-> "YOU BOUGHT;", name |-> "AAA INC.",
     shares |-> "10", amount |-> "-$1,000.00"]
RAW_SELL ==
    [date |-> "Feb-05-2024", type |-> "YOU SOLD", name |-> "AAA INC.",
     shares |-> "-4", amount |-> "$600.00"]
RAW_DIV ==
    [date |-> "Feb-05-2024", type |-> "DIVIDEND RECEIVED", name |-> "AAA INC.",
     shares |-> NoName, amount |-> "($1.50)"]
RAW_FOOTER ==
    [date |-> FOOTER_TEXT, type |-> NoName, name |-> NoName,
     shares |-> NoName, amount |-> NoName]
RAW_NOTE ==
    [date |-> FOOTER_TEXT, type |-> "DIVIDEND RECEIVED", name |-> NoName,
     shares |-> NoName, amount |-> "$0.10"]

RAW_EMPTY ==
    [date |-> NoName, type |-> NoName, name |-> NoName,
     shares |-> NoName, amount |-> NoName]

RawRows == {RAW_BUY, RAW_SELL, RAW_DIV, RAW_FOOTER, RAW_NOTE, RAW_EMPTY}

FileContents == UNION { [1..n -> RawRows] : n \in 1..MaxFileRows }
PathLists    == UNION { [1..n -> PATHS] : n \in 1..MaxPaths }

\* str.contains(r"Unless noted otherwise|Stock plan account history as of", case=False)
IsFooterText(date) == date = FOOTER_TEXT

\* footer_mask of _strip_known_fidelity_footer_rows, for one row
IsFooterRow(row) ==
    /\ row.type = NoName
    /\ row.name = NoName
    /\ row.shares = NoName
    /\ row.amount = NoName
    /\ IsFooterText(row.date)

\* frame = pd.read_csv(p); frame['_source_file'] = str(p)
ReadCsv(p) ==
    [i \in DOMAIN files[p] |->
        [date |-> files[p][i].date, type |-> files[p][i].type, name |-> files[p][i].name,
         shares |-> files[p][i].shares, amount |-> files[p][i].amount,
         source_file |-> p]]

\* pd.concat(frames, ignore_index=True)
RECURSIVE Concat(_)
Concat(ps) == IF ps = <<>> THEN <<>> ELSE ReadCsv(Head(ps)) \o Concat(Tail(ps))

\* the row without its _source_file column
ValueOf(row) ==
    [date |-> row.date, type |-> row.type, name |-> row.name,
     shares |-> row.shares, amount |-> row.amount]

\* n_files counted as the number of rows of the group, not of distinct files
NFiles_CountRows(tbl, v) == Cardinality({ i \in DOMAIN tbl : ValueOf(tbl[i]) = v })

\* groupby(value_cols, dropna=False)['_source_file'].nunique() for the group v
NFiles(tbl, v) == Cardinality({ tbl[i].source_file : i \in { j \in DOMAIN tbl : ValueOf(tbl[j]) = v } })

\* cross_file_dup[cross_file_dup['n_files'] > 1]
CrossFileDup(tbl) == { v \in { ValueOf(tbl[i]) : i \in DOMAIN tbl } : NFiles(tbl, v) > 1 }

\* astype(str).str.split(';').str[0]: an empty cell becomes the string "nan"
ParseType(t) ==
    CASE t = NoName        -> "nan"
      [] t = "YOU BOUGHT;" -> "YOU BOUGHT"
      [] OTHER             -> t

\* pd.to_datetime(..., format='%b-%d-%Y', errors='coerce'), as a day number
ParseDate(d) ==
    CASE d = "Jan-05-2024" -> <<5>>
      [] d = "Feb-05-2024" -> <<36>>
      [] OTHER             -> NaN

\* pd.to_numeric(tx['Shares'], errors='coerce')
ParseShares(x) ==
    CASE x = "10" -> <<10>>
      [] x = "-4" -> <<0 - 4>>
      [] OTHER    -> NaN

\* str.replace('[$,]', '', regex=True): every '$' and ',' is removed, nothing else
StripDollarAndComma(x) ==
    CASE x = "-$1,000.00" -> "-1000.00"
      [] x = "$600.00"    -> "600.00"
      [] x = "$0.10"      -> "0.10"
      [] x = "($1.50)"    -> "(1.50)"
      [] OTHER            -> x

\* pd.to_numeric(..., errors='coerce') of a string, in cents: a string that
\* is not a plain decimal literal gives NaN
ToNumeric(x) ==
    CASE x = "-1000.00" -> <<0 - 100000>>
      [] x = "600.00"   -> <<60000>>
      [] x = "0.10"     -> <<10>>
      [] OTHER          -> NaN

\* pd.to_numeric(Amount.str.replace('[$,]', ''), errors='coerce'), in cents:
\* "-$1,000.00" -> "-1000.00", "($1.50)" -> "(1.50)" which is no number
ParseAmount(x) == ToNumeric(StripDollarAndComma(x))

ParsedRow(row) ==
    [date |-> row.date, type |-> ParseType(row.type), name |-> row.name,
     shares_raw |-> row.shares, amount |-> row.amount,
     trade_date |-> ParseDate(row.date),
     shares     |-> ParseShares(row.shares),
     amount_usd |-> ParseAmount(row.amount)]

\* the Amount column holds strings (dtype object) when some cell of the
\* concatenated frames is not empty; otherwise it is float64 and has no .str
AmountIsStringColumn == \E p \in SeqToSet(paths) : \E i \in DOMAIN files[p] : files[p][i].amount # NoName

\* tx[core_cols].notna().any(axis=1) for one parsed row: 'Transaction type'
\* is a string by then ("nan" for an empty cell), which is not NA
HasAnyCoreValue(row) ==
    \/ row.type # NoName
    \/ row.name # NoName
    \/ row.shares_raw # NoName
    \/ row.amount # NoName

\* tx['Transaction type'].str.contains('YOU BOUGHT|YOU SOLD', na=False)
IsMarketRow(row) == Contains(row.type, "YOU BOUGHT") \/ Contains(row.type, "YOU SOLD")

\* one log line when the count is not 0
LogCount(level, kind, n) ==
    IF n = 0 THEN <<>> ELSE <<[level |-> level, kind |-> kind, n |-> n]>>

\* check_transaction_data_consistency(tx): the lines it logs
ConsistencyLog(tbl) ==
    LET invalid   == { i \in DOMAIN tbl : tbl[i].trade_date = NaN }
        malformed == { i \in invalid : HasAnyCoreValue(tbl[i]) }
        ignored   == { i \in invalid : ~HasAnyCoreValue(tbl[i]) }
        market    == { i \in DOMAIN tbl : IsMarketRow(tbl[i]) }
    IN  LogCount("error", "InvalidDate", Cardinality(malformed))
        \o LogCount("info", "IgnoredBlankDate", Cardinality(ignored))
        \o LogCount("error", "MissingShares",
                    Cardinality({ i \in market : tbl[i].shares = NaN }))
        \o LogCount("error", "MissingAmount",
                    Cardinality({ i \in market : tbl[i].amount_usd = NaN }))

InitLoad ==
    /\ pc = "load_start"
    /\ files \in [PATHS -> FileContents]
    /\ paths \in PathLists
    /\ tx_raw = <<>>
    /\ loaded = <<>>
    /\ load_error = ""
    /\ load_log = <<>>
    /\ IdleFifo /\ IdleDates /\ IdleRates /\ IdleCustom /\ IdleFields /\ IdleNbp /\ IdleIngest

\* lines 651-657
ReadAndConcat ==
    /\ pc = "load_start"
    /\ tx_raw' = Concat(paths)
    /\ pc' = "load_strip"
    /\ UNCHANGED <<files, paths, loaded, load_error, load_log>>
    /\ UNCHANGED notLoad

\* line 658
StripFooterRows ==
    /\ pc = "load_strip"
    /\ LET keep(row) == ~IsFooterRow(row)
       IN  tx_raw' = SelectSeq(tx_raw, keep)
    /\ pc' = "load_check"
    /\ UNCHANGED <<files, paths, loaded, load_error, load_log>>
    /\ UNCHANGED notLoad

MustRaiseDuplicates == Len(paths) > 1 /\ CrossFileDup(tx_raw) # {}

\* lines 659-660, when check_no_cross_file_duplicates raises
RaiseCrossFileDuplicates ==
    /\ pc = "load_check"
    /\ MustRaiseDuplicates
    /\ load_error' = "ValueError"
    /\ pc' = "load_raised"
    /\ UNCHANGED <<files, paths, tx_raw, loaded, load_log>>
    /\ UNCHANGED notLoad

\* lines 662-666, when tx['Amount'].str raises
RaiseNoStrAccessor ==
    /\ pc = "load_check"
    /\ ~MustRaiseDuplicates
    /\ ~AmountIsStringColumn
    /\ load_error' = "AttributeError"
    /\ pc' = "load_raised"
    /\ UNCHANGED <<files, paths, tx_raw, loaded, load_log>>
    /\ UNCHANGED notLoad

\* lines 662-669
ParseAndReturn ==
    /\ pc = "load_check"
    /\ ~MustRaiseDuplicates
    /\ AmountIsStringColumn
    /\ loaded' = [i \in DOMAIN tx_raw |-> ParsedRow(tx_raw[i])]
    /\ load_log' = ConsistencyLog(loaded')
    /\ pc' = "load_done"
    /\ UNCHANGED <<files, paths, tx_raw, load_error>>
    /\ UNCHANGED notLoad

NextLoad ==
    \/ ReadAndConcat
    \/ StripFooterRows
    \/ RaiseCrossFileDuplicates
    \/ RaiseNoStrAccessor
    \/ ParseAndReturn

SpecLoad == InitLoad /\ [][NextLoad]_vars

\* --------------------------------------------- claims on load_transactions
LoadReturned == pc \in {"load_done", "load_raised"}

\* the value rows that two different files of the argument both hold
InTwoFiles ==
    { v \in RawRows : \E p, q \in SeqToSet(paths) :
          /\ p # q
          /\ \E i \in DOMAIN files[p] : files[p][i] = v
          /\ \E j \in DOMAIN files[q] : files[q][j] = v }

\* how many times the files of the argument hold the row v, path by path
RECURSIVE Occurrences(_, _)
Occurrences(ps, v) ==
    IF ps = <<>> THEN 0
    ELSE Cardinality({ i \in DOMAIN files[Head(ps)] : files[Head(ps)][i] = v })
         + Occurrences(Tail(ps), v)

\* how many rows of the returned table come from the row v
Returned(v) ==
    Cardinality({ i \in DOMAIN loaded :
        /\ loaded[i].date = v.date /\ loaded[i].name = v.name
        /\ loaded[i].shares_raw = v.shares /\ loaded[i].amount = v.amount
        /\ loaded[i].type = ParseType(v.type) })

MaxMultiplicity(v) ==
    SetMax({ Cardinality({ i \in DOMAIN files[p] : files[p][i] = v }) : p \in SeqToSet(paths) })

\* C11 (the claim as stated): load_transactions returns a table, and in it every
\* distinct transaction row has the largest multiplicity it has in any single
\* file of the list, not the sum over the list; loading the same file twice
\* returns as many rows as loading it once.
C11_MaxMultiplicityKept ==
    (LoadReturned /\ AmountIsStringColumn) =>
        /\ load_error = ""
        /\ \A v \in RawRows \ {RAW_FOOTER} : Returned(v) = MaxMultiplicity(v)

\* ========================================================== process_custom
ESPP_BUY == "YOU BOUGHT ESPP### AS OF 09-11-24"

TradeDatesOfCustom == 1..MaxTradeDate

\* the rate merge_with_rates gave a row: the rate table starts on day 1, so a
\* row settled on day 1 (rate date before it) has none
CustomRateAt(settlement_date) == IF settlement_date = 1 THEN NaN ELSE <<3 + settlement_date>>

CustomMergedShapes ==
    [type : {SELL, ESPP_BUY, BUY}, trade_date : TradeDatesOfCustom, settle_after : {0, 1}]

\* the row at position i of the table handed to process_custom
MakeCustomMergedRow(i, sh) ==
    LET settlement_date == sh.trade_date + sh.settle_after
        rate            == CustomRateAt(settlement_date)
        amount_usd      == IF sh.type = SELL THEN 150 * i + 1 ELSE 0 - (100 * i + 1)
    IN  [type            |-> sh.type,
         name            |-> IF i % 2 = 1 THEN "AAA INC." ELSE "BBB INC.",
         shares          |-> IF sh.type = SELL THEN 0 - 2 ELSE 2,
         trade_date      |-> sh.trade_date,
         settlement_date |-> settlement_date,
         rate            |-> rate,
         amount_pln      |-> AmountPln(amount_usd, rate)]

\* the 'Cost basis' cells of the custom-summary file
COST_BASIS_CELLS == {"whatever", "$0.05", "($0.05)"}

\* str.strip, paren_negative, str.replace(r'[\s$,()]', ''), pd.to_numeric(errors='coerce'),
\* in cents
ParseCostBasis(cell) ==
    CASE cell = "$0.05"   -> <<5>>
      [] cell = "($0.05)" -> <<0 - 5>>
      [] OTHER            -> NaN

\* the rows of the custom-summary file, dates and quantity already parsed
CustomShapes ==
    [sale_date  : { <<d>> : d \in 1..(MaxTradeDate + 1) },
     acq_date   : { <<d>> : d \in TradeDatesOfCustom },
     qty        : {1},
     source     : {"RS", "SP", "DO"},
     cost_basis : COST_BASIS_CELLS,
     ident      : {<<NoName, NoName>>, <<"AAA", NoName>>, <<"ZZZ", NoName>>,
                   <<NoName, "BBB INC.">>}]
    \cup
    [sale_date  : {NaN},                 \* an unparseable 'Date sold or transferred'
     acq_date   : {<<1>>},
     qty        : {1},
     source     : {"RS", "DO"},
     cost_basis : {"$0.05"},
     ident      : {<<NoName, NoName>>}]
    \cup
    [sale_date  : { <<d>> : d \in TradeDatesOfCustom },   \* more shares than any sale sold
     acq_date   : {<<1>>},
     qty        : {3},
     source     : {"RS"},
     cost_basis : {"whatever"},
     ident      : {<<NoName, NoName>>}]

\* lines 410-419: one parsed row of `custom`
MakeCustomRow(sh) ==
    [sale_date |-> sh.sale_date, acq_date |-> sh.acq_date, qty |-> sh.qty,
     source |-> sh.source, cost_basis_usd |-> ParseCostBasis(sh.cost_basis),
     symbol |-> sh.ident[1], investment_name |-> sh.ident[2]]

\* drop_duplicates(): the first occurrence of every row, in order
RECURSIVE DropDuplicates(_)
DropDuplicates(rows) ==
    IF rows = <<>> THEN <<>>
    ELSE LET front == DropDuplicates(SubSeq(rows, 1, Len(rows) - 1))
             last  == rows[Len(rows)]
         IN  IF \E i \in DOMAIN front : front[i] = last THEN front ELSE Append(front, last)

\* lines 421-429: the sale dates the year filter lets through
AllowedSaleDates(tbl, yr) ==
    LET sells_in_year == { i \in DOMAIN tbl : Contains(tbl[i].type, "YOU SOLD")
                                              /\ YearOf(tbl[i].settlement_date) = yr[1] }
    IN  { tbl[i].trade_date : i \in sells_in_year }
        \cup { tbl[i].settlement_date : i \in sells_in_year }

FilterCustomByYear(tbl, rows, yr) ==
    IF yr = <<>> THEN rows
    ELSE LET keep(row) == row.sale_date = NaN \/ row.sale_date[1] \in AllowedSaleDates(tbl, yr)
         IN  SelectSeq(rows, keep)

\* rf"\b{symbol}\b" found in the investment name
TokenIn(symbol, name) == symbol = "AAA" /\ name = "AAA INC."

\* _filter_by_identifier over the candidate rows S (no 'Symbol' column in merged)
FilterByIdentifier(tbl, S, custom_symbol, custom_investment_name) ==
    IF S = {} THEN S
    ELSE IF custom_symbol # NoName THEN
        LET exact == { i \in S : tbl[i].name = custom_symbol }
            token == { i \in S : TokenIn(custom_symbol, tbl[i].name) }
        IN  IF exact # {} THEN exact ELSE IF token # {} THEN token ELSE {}
    ELSE IF custom_investment_name # NoName THEN
        LET named == { i \in S : tbl[i].name = custom_investment_name }
        IN  IF named # {} THEN named ELSE S
    ELSE S

\* lines 460-469: the sells of the sale date, by trade date and, when there is
\* none, by settlement date
SalesOfDate(tbl, sale_date) ==
    LET by_trade  == { i \in DOMAIN tbl : tbl[i].trade_date = sale_date
                                          /\ Contains(tbl[i].type, "YOU SOLD") }
        by_settle == { i \in DOMAIN tbl : tbl[i].settlement_date = sale_date
                                          /\ Contains(tbl[i].type, "YOU SOLD") }
    IN  IF by_trade # {} THEN by_trade ELSE by_settle

\* line 470
SaleCandidates(tbl, row) ==
    FilterByIdentifier(tbl, SalesOfDate(tbl, row.sale_date[1]), row.symbol, row.investment_name)

\* lines 487-505: the buys of the acquisition date
BuyCandidates(tbl, row, sale_investment) ==
    LET fits(i) == /\ Contains(tbl[i].type, "YOU BOUGHT")
                   /\ (sale_investment # NoName => tbl[i].name = sale_investment)
                   /\ (row.source = "SP" => Contains(tbl[i].type, "ESPP"))
        by_trade  == { i \in DOMAIN tbl : tbl[i].trade_date = row.acq_date[1] /\ fits(i) }
        by_settle == { i \in DOMAIN tbl : tbl[i].settlement_date = row.acq_date[1] /\ fits(i) }
    IN  IF by_trade # {} THEN by_trade ELSE by_settle

\* line 456
IsInvalidCustomRow(row) ==
    row.sale_date = NaN \/ row.acq_date = NaN \/ row.qty <= 0

RECURSIVE SortedSeq(_)
SortedSeq(S) == IF S = {} THEN <<>> ELSE <<SetMin(S)>> \o SortedSeq(S \ {SetMin(S)})

\* check_custom_summary_rows_valid: what it logs
InvalidRowsLog(rows) ==
    LET n == Cardinality({ k \in DOMAIN rows : IsInvalidCustomRow(rows[k]) })
    IN  IF n > 0 THEN <<[kind |-> "InvalidRows", row |-> n]>> ELSE <<>>

\* check_custom_sale_date_quantities: what it logs for the sale date d
SaleDateQuantityLog(tbl, rows, yr, d) ==
    LET sells      == { i \in DOMAIN tbl : Contains(tbl[i].type, "YOU SOLD")
                          /\ (yr # <<>> => YearOf(tbl[i].settlement_date) = yr[1]) }
        shares     == [i \in DOMAIN tbl |-> tbl[i].shares]
        trade_qty  == Abs(SumOver(shares, { i \in sells : tbl[i].trade_date = d }))
        settle_qty == Abs(SumOver(shares, { i \in sells : tbl[i].settlement_date = d }))
        available_qty == IF trade_qty > 0 THEN trade_qty ELSE settle_qty
        quantity   == [k \in DOMAIN rows |-> rows[k].qty]
        custom_qty == SumOver(quantity, { k \in DOMAIN rows : rows[k].sale_date = <<d>> })
    IN  IF available_qty = 0 THEN <<[kind |-> "NoSaleForDate", row |-> d]>>
        ELSE IF custom_qty > available_qty THEN <<[kind |-> "SaleQtyExceeds", row |-> d]>>
        ELSE <<>>

RECURSIVE SaleDateQuantitiesLog(_, _, _, _)
SaleDateQuantitiesLog(tbl, rows, yr, dates) ==
    IF dates = <<>> THEN <<>>
    ELSE SaleDateQuantityLog(tbl, rows, yr, Head(dates))
         \o SaleDateQuantitiesLog(tbl, rows, yr, Tail(dates))

STOCK_SOURCES == <<"DO", "RS", "SP">>

\* check_custom_acquired_quantities: what it logs for the group (d, source)
AcquiredQuantityLog(tbl, rows, d, source) ==
    LET group == { k \in DOMAIN rows : rows[k].acq_date = <<d>> /\ rows[k].source = source }
        quantity   == [k \in DOMAIN rows |-> rows[k].qty]
        needed_qty == SumOver(quantity, group)
        candidate  == { i \in DOMAIN tbl :
                          /\ Contains(tbl[i].type, "YOU BOUGHT")
                          /\ (source = "SP" => Contains(tbl[i].type, "ESPP"))
                          /\ (source = "RS" => Contains(tbl[i].type, "RSU")) }
        shares     == [i \in DOMAIN tbl |-> tbl[i].shares]
        trade_qty  == SumOver(shares, { i \in candidate : tbl[i].trade_date = d })
        settle_qty == SumOver(shares, { i \in candidate : tbl[i].settlement_date = d })
        available_qty == IF trade_qty > 0 THEN trade_qty ELSE settle_qty
    IN  IF group = {} THEN <<>>
        ELSE IF available_qty = 0 THEN <<[kind |-> "NoBuyLot", row |-> d]>>
        ELSE IF needed_qty > available_qty THEN <<[kind |-> "AcquiredQtyExceeds", row |-> d]>>
        ELSE <<>>

RECURSIVE AcquiredQuantitiesLog(_, _, _)
AcquiredQuantitiesLog(tbl, rows, dates) ==
    IF dates = <<>> THEN <<>>
    ELSE AcquiredQuantityLog(tbl, rows, Head(dates), STOCK_SOURCES[1])
         \o AcquiredQuantityLog(tbl, rows, Head(dates), STOCK_SOURCES[2])
         \o AcquiredQuantityLog(tbl, rows, Head(dates), STOCK_SOURCES[3])
         \o AcquiredQuantitiesLog(tbl, rows, Tail(dates))

\* lines 431-433
PreflightLog(tbl, rows, yr) ==
    InvalidRowsLog(rows)
    \o SaleDateQuantitiesLog(tbl, rows, yr,
          SortedSeq({ rows[k].sale_date[1] : k \in { j \in DOMAIN rows : rows[j].sale_date # NaN } }))
    \o AcquiredQuantitiesLog(tbl, rows,
          SortedSeq({ rows[k].acq_date[1] : k \in { j \in DOMAIN rows : rows[j].acq_date # NaN } }))

\* line 476: round(qty * price_per, 2), price_per = amount_pln / abs(shares) if shares else 0
CustomProceeds(sale, quantity) ==
    IF sale.shares = 0 THEN <<0>>
    ELSE IF sale.amount_pln = NaN THEN NaN
    ELSE <<Round2(quantity * sale.amount_pln[1], Abs(sale.shares))>>

\* lines 533-534: round(qty * cost_per, 2), cost_per = -amount_pln / shares if shares else 0
CustomCostFromBuy(buy, quantity) ==
    IF buy.shares = 0 THEN <<0>>
    ELSE IF buy.amount_pln = NaN THEN NaN
    ELSE <<Round2(quantity * (0 - buy.amount_pln[1]), buy.shares)>>

\* lines 509-534: the cost of a row, or the reason the row is dropped;
\* buy = 0 stands for `buy is None`
ResolveCost(tbl, row, buy) ==
    IF row.source = "RS" THEN [kind |-> "cost", cost |-> <<0>>]
    ELSE IF row.cost_basis_usd # NaN THEN
        IF row.cost_basis_usd[1] < 0 THEN [kind |-> "NegativeCostBasis", cost |-> NaN]
        ELSE IF buy = 0 \/ tbl[buy].rate = NaN THEN [kind |-> "NoRate", cost |-> NaN]
        ELSE [kind |-> "cost", cost |-> <<Round2(row.cost_basis_usd[1] * tbl[buy].rate[1], 1)>>]
    ELSE [kind |-> "cost", cost |-> CustomCostFromBuy(tbl[buy], row.qty)]

\* one pass of the for-loop body (lines 435-536) over `row`: what it logs, and
\* the allocation it appends, if any
CustomRowResult(tbl, row, k) ==
    IF IsInvalidCustomRow(row) THEN [kind |-> "invalid", log |-> <<>>, alloc |-> <<>>]
    ELSE
    LET of_date == SalesOfDate(tbl, row.sale_date[1])
        sale_tx == SaleCandidates(tbl, row)
        symbol_log == IF of_date # {} /\ row.symbol # NoName /\ sale_tx = {}
                      THEN <<[kind |-> "SymbolNotMatched", row |-> k]>> ELSE <<>>
    IN  IF sale_tx = {}
        THEN [kind |-> "SaleNotFound",
              log |-> symbol_log \o <<[kind |-> "SaleNotFound", row |-> k]>>, alloc |-> <<>>]
        ELSE
        LET sale_log == IF Cardinality(sale_tx) > 1
                        THEN <<[kind |-> "AmbiguousSale", row |-> k]>> ELSE <<>>
            sale     == SetMin(sale_tx)
            proceeds == CustomProceeds(tbl[sale], row.qty)
            buy_tx   == IF row.source # "RS" THEN BuyCandidates(tbl, row, tbl[sale].name) ELSE {}
        IN  IF row.source # "RS" /\ buy_tx = {}
            THEN [kind |-> "BuyNotFound",
                  log |-> sale_log \o <<[kind |-> "BuyNotFound", row |-> k]>>, alloc |-> <<>>]
            ELSE
            LET buy_log == IF Cardinality(buy_tx) > 1
                           THEN <<[kind |-> "AmbiguousBuy", row |-> k]>> ELSE <<>>
                buy     == IF row.source # "RS" THEN SetMin(buy_tx) ELSE 0
                res     == ResolveCost(tbl, row, buy)
            IN  IF res.kind # "cost"
                THEN [kind |-> res.kind,
                      log |-> sale_log \o buy_log \o <<[kind |-> res.kind, row |-> k]>>,
                      alloc |-> <<>>]
                ELSE [kind |-> "alloc",
                      log |-> sale_log \o buy_log
                              \o (IF row.source = "SP" /\ row.cost_basis_usd = NaN
                                  THEN <<[kind |-> "SPFallback", row |-> k]>> ELSE <<>>),
                      alloc |-> <<[proceeds |-> proceeds, cost |-> res.cost,
                                   sale |-> sale, lot |-> buy, row |-> k]>>]

YearArgsCustom == {<<>>} \cup { <<YearOf(d)>> : d \in 1..(MaxTradeDate + 1) }

InitCustom ==
    /\ pc = "custom_start"
    /\ \E n \in 1..MaxCustomMerged : \E t \in [1..n -> CustomMergedShapes] :
          merged = [i \in 1..n |-> MakeCustomMergedRow(i, t[i])]
    /\ \E n \in 1..MaxCustomRows : \E t \in [1..n -> CustomShapes] :
          custom = [k \in 1..n |-> MakeCustomRow(t[k])]
    /\ year \in YearArgsCustom
    /\ customPos = 0
    /\ customLog = <<>>
    /\ allocs = <<>>
    /\ totals = <<>>
    /\ sellsOrder = <<>> /\ sellPos = 0 /\ qty = 0 /\ remaining = <<>>
    /\ oversellLog = <<>> /\ noLotsLog = <<>>
    /\ IdleDates /\ IdleRates /\ IdleLoad /\ IdleFields /\ IdleNbp /\ IdleIngest

CustomRowsUnchanged ==
    UNCHANGED <<merged, year, sellsOrder, sellPos, qty, remaining, oversellLog, noLotsLog, totals>>

\* lines 402-434: parse, year filter, the three checks before the loop
CustomPrepare ==
    /\ pc = "custom_start"
    /\ custom' = FilterCustomByYear(merged, DropDuplicates(custom), year)
    /\ customLog' = PreflightLog(merged, custom', year)
    /\ customPos' = 0
    /\ pc' = "custom_for"
    /\ UNCHANGED allocs
    /\ CustomRowsUnchanged
    /\ UNCHANGED notCustom

\* lines 456-457: an invalid row, `continue`
CustomSkipInvalid ==
    /\ pc = "custom_for"
    /\ customPos < Len(custom)
    /\ LET k   == customPos + 1
           res == CustomRowResult(merged, custom[k], k)
       IN  /\ res.kind \in {"invalid"}
           /\ customLog' = customLog \o res.log
           /\ customPos' = k
    /\ UNCHANGED <<pc, custom, allocs>>
    /\ CustomRowsUnchanged
    /\ UNCHANGED notCustom

\* lines 459-472: no sale record, `continue`
CustomSaleNotFound ==
    /\ pc = "custom_for"
    /\ customPos < Len(custom)
    /\ LET k   == customPos + 1
           res == CustomRowResult(merged, custom[k], k)
       IN  /\ res.kind \in {"SaleNotFound"}
           /\ customLog' = customLog \o res.log
           /\ customPos' = k
    /\ UNCHANGED <<pc, custom, allocs>>
    /\ CustomRowsUnchanged
    /\ UNCHANGED notCustom

\* lines 484-507: no buy record, `continue`
CustomBuyNotFound ==
    /\ pc = "custom_for"
    /\ customPos < Len(custom)
    /\ LET k   == customPos + 1
           res == CustomRowResult(merged, custom[k], k)
       IN  /\ res.kind \in {"BuyNotFound"}
           /\ customLog' = customLog \o res.log
           /\ customPos' = k
    /\ UNCHANGED <<pc, custom, allocs>>
    /\ CustomRowsUnchanged
    /\ UNCHANGED notCustom

\* lines 511-526: a negative cost basis or no rate to convert it, `continue`
CustomCostRejected ==
    /\ pc = "custom_for"
    /\ customPos < Len(custom)
    /\ LET k   == customPos + 1
           res == CustomRowResult(merged, custom[k], k)
       IN  /\ res.kind \in {"NegativeCostBasis", "NoRate"}
           /\ customLog' = customLog \o res.log
           /\ customPos' = k
    /\ UNCHANGED <<pc, custom, allocs>>
    /\ CustomRowsUnchanged
    /\ UNCHANGED notCustom

\* a pass of the loop that reaches allocs.append (line 536)
CustomAlloc ==
    /\ pc = "custom_for"
    /\ customPos < Len(custom)
    /\ LET k   == customPos + 1
           res == CustomRowResult(merged, custom[k], k)
       IN  /\ res.kind = "alloc"
           /\ customLog' = customLog \o res.log
           /\ allocs' = allocs \o res.alloc
           /\ customPos' = k
    /\ UNCHANGED <<pc, custom>>
    /\ CustomRowsUnchanged
    /\ UNCHANGED notCustom

\* lines 538-543
CustomFinish ==
    /\ pc = "custom_for"
    /\ customPos = Len(custom)
    /\ LET total_proceeds == SumProceeds(allocs)
           total_costs    == SumCost(allocs)
           total_gain     == SubNaN(total_proceeds, total_costs)
       IN  totals' = <<total_proceeds, total_costs, total_gain>>
    /\ pc' = "custom_done"
    /\ UNCHANGED <<merged, year, sellsOrder, sellPos, qty, remaining, allocs, oversellLog,
                   noLotsLog, customVars>>
    /\ UNCHANGED notCustom

NextCustom ==
    \/ CustomPrepare
    \/ CustomSkipInvalid
    \/ CustomSaleNotFound
    \/ CustomBuyNotFound
    \/ CustomCostRejected
    \/ CustomAlloc
    \/ CustomFinish

SpecCustom == InitCustom /\ [][NextCustom]_vars

\* ------------------------------------------------ claims on process_custom
CustomDone == pc = "custom_done"

\* the allocations the row k of `custom` produced
AllocsOfRow(k) == { a \in SeqToSet(allocs) : a.row = k }

Logged(k, kinds) == \E e \in SeqToSet(customLog) : e.row = k /\ e.kind \in kinds

\* C12 (the claim as stated): the cost of every row that enters the totals is
\* resolved in this order: (a) a reported cost basis, converted at the rate of
\* the buy matched to the row, also for the source RS; (b) else 0 for the
\* source RS; (c) else the quantity times the matched buy's PLN amount,
\* sign-flipped, divided by the buy's quantity.
C12_CostPrecedence ==
    CustomDone =>
        \A a \in SeqToSet(allocs) :
            LET row == custom[a.row]
                buy_tx == BuyCandidates(merged, row, merged[a.sale].name)
            IN  /\ (row.cost_basis_usd # NaN /\ buy_tx # {}) =>
                      \E b \in buy_tx :
                          /\ merged[b].rate # NaN
                          /\ a.cost = <<row.cost_basis_usd[1] * merged[b].rate[1]>>
                /\ (row.cost_basis_usd = NaN /\ row.source = "RS") => a.cost = <<0>>
                /\ (row.cost_basis_usd = NaN /\ row.source # "RS") =>
                      \E b \in buy_tx : a.cost = CustomCostFromBuy(merged[b], row.qty)

\* C13 (the claim as stated): a row whose sell lookup or buy lookup yields no
\* candidate or more than one candidate after identifier disambiguation is
\* reported and skipped: it has no allocation, so it adds nothing to proceeds
\* or cost.
C13_AmbiguousOrMissingSkipped ==
    CustomDone =>
        \A k \in DOMAIN custom :
            ~IsInvalidCustomRow(custom[k]) =>
                LET sale_tx == SaleCandidates(merged, custom[k])
                IN  /\ Cardinality(sale_tx) # 1 =>
                          /\ AllocsOfRow(k) = {}
                          /\ Logged(k, {"SaleNotFound", "AmbiguousSale"})
                    /\ (Cardinality(sale_tx) = 1 /\ custom[k].source # "RS") =>
                          LET buy_tx == BuyCandidates(merged, custom[k],
                                                      merged[SetMin(sale_tx)].name)
                          IN  Cardinality(buy_tx) # 1 =>
                                  /\ AllocsOfRow(k) = {}
                                  /\ Logged(k, {"BuyNotFound", "AmbiguousBuy"})

\* C14 (the claim as stated): with a target year, every row that enters the
\* totals is matched to a sell that settles in that year.
C14_MatchedSaleSettlesInYear ==
    (CustomDone /\ year # <<>>) =>
        \A a \in SeqToSet(allocs) : YearOf(merged[a.sale].settlement_date) = year[1]

\* ====================================================================
\* calculate_pit38_fields, PIT38Fields.print and the command line
\* ====================================================================
\* Decimal amounts are integers here: inputs in thousandths of a PLN, the
\* two-place fields in grosze (hundredths), the whole-PLN fields in PLN.

\* pit38_fields.py: SUPPORTED_PIT38_FORM_YEARS
SUPPORTED_PIT38_FORM_YEARS == {2024, 2025}

\* the years a run is asked for
FormYears == {2023, 2024, 2025, 2026}

\* Decimal.quantize(..., rounding=ROUND_HALF_UP) of num/den: ties go away from zero
QuantizeHalfUp(num, den) ==
    IF num >= 0 THEN (2 * num + den) \div (2 * den)
    ELSE 0 - ((2 * (0 - num) + den) \div (2 * den))

\* Decimal.quantize(..., rounding=ROUND_CEILING) of num/den
QuantizeCeiling(num, den) == 0 - ((0 - num) \div den)

RoundTax_Truncate(value) == IF value < 0 THEN 0 ELSE value \div 100
\* _round_tax: grosze to whole PLN
RoundTax(value) == IF value < 0 THEN 0 ELSE QuantizeHalfUp(value, 100)

RoundUpToGrosz_HalfUp(num, den) == QuantizeHalfUp(num, den)
\* _round_up_to_grosz of num/den grosze
RoundUpToGrosz(num, den) == QuantizeCeiling(num, den)

Poz32_Uncapped(foreign_tax_capital_gains, poz31) ==
    QuantizeHalfUp(Max(foreign_tax_capital_gains, 0), 10)
\* line 754: the credit of section C/D, capped at Poz. 31
Poz32(foreign_tax_capital_gains, poz31) ==
    QuantizeHalfUp(Min(Max(foreign_tax_capital_gains, 0), 10 * poz31), 10)

\* line 762: the credit of section G, capped at Poz. 45
Poz46(foreign_tax_dividends, poz45) ==
    QuantizeHalfUp(Min(foreign_tax_dividends, 10 * poz45), 10)

\* Decimal('NaN') passes through quantize and the subtraction, and
\* `value_dec < 0` in _round_tax then raises decimal.InvalidOperation
RaisesInvalidOperation(args) ==
    args.total_proceeds = NaN \/ args.total_costs = NaN

\* calculate_pit38_fields, lines 740-787, for arguments that are numbers
CalculatePit38Fields(args) ==
    LET poz22 == QuantizeHalfUp(args.total_proceeds[1], 10)
        poz23 == QuantizeHalfUp(args.total_costs[1], 10)
        poz26 == QuantizeHalfUp(poz22 - poz23, 1)
        poz29 == RoundTax(poz26)
        poz31 == QuantizeHalfUp(poz29 * 19, 1)
        poz32 == Poz32(args.foreign_tax_capital_gains, poz31)
        tax_final == RoundTax(poz31 - poz32)
        poz45 == RoundUpToGrosz(args.total_dividends * 19, 1000)
        poz46 == Poz46(args.foreign_tax_dividends, poz45)
        poz47 == RoundTax(poz45 - poz46)
    IN  [poz22 |-> poz22, poz23 |-> poz23, poz26 |-> poz26, poz29 |-> poz29,
         poz31 |-> poz31, poz32 |-> poz32, tax_final |-> tax_final,
         poz45 |-> poz45, poz46 |-> poz46, poz47 |-> poz47,
         pitzg_poz29 |-> IF args.total_gain = NaN THEN NaN
                         ELSE <<QuantizeHalfUp(args.total_gain[1], 10)>>,
         pitzg_poz30 |-> poz32,
         section_g_total_income |-> QuantizeHalfUp(args.total_dividends, 10),
         year |-> args.year]

\* the totals a caller may pass
ProceedsArgs == { <<5 * k>> : k \in 0..MaxHalfGrosze } \cup { <<263000>>, NaN }
CostsArgs    == { <<0>>, <<1000>>, <<500000>> }
DividendArgs == { 10 * k : k \in 0..MaxDividend } \cup { 250000 }
ForeignTaxDividendArgs     == { 0, 15, 100000 }
ForeignTaxCapitalGainsArgs == { 0 - 100, 0, 15, 100000 }

InitFields ==
    /\ pc = "fields_start"
    /\ \E p \in ProceedsArgs, c \in CostsArgs, d \in DividendArgs,
          fd \in ForeignTaxDividendArgs, fc \in ForeignTaxCapitalGainsArgs,
          y \in FormYears :
          field_args = [total_proceeds |-> p, total_costs |-> c,
                        total_gain |-> SubNaN(p, c), total_dividends |-> d,
                        foreign_tax_dividends |-> fd,
                        foreign_tax_capital_gains |-> fc, year |-> y]
    /\ fields = <<>>
    /\ fields_error = ""
    /\ presented = ""
    /\ IdleFifo /\ IdleDates /\ IdleRates /\ IdleLoad /\ IdleCustom /\ IdleNbp /\ IdleIngest

\* calculate_pit38_fields returns the PIT38Fields
ReturnFields ==
    /\ pc = "fields_start"
    /\ ~RaisesInvalidOperation(field_args)
    /\ fields' = <<CalculatePit38Fields(field_args)>>
    /\ pc' = "fields_done"
    /\ UNCHANGED <<field_args, fields_error, presented>>
    /\ UNCHANGED notFields

\* calculate_pit38_fields: _round_tax(poz26) raises on a NaN total
RaiseInvalidOperation ==
    /\ pc = "fields_start"
    /\ RaisesInvalidOperation(field_args)
    /\ fields_error' = "InvalidOperation"
    /\ pc' = "raised"
    /\ UNCHANGED <<field_args, fields, presented>>
    /\ UNCHANGED notFields

\* cli.main, lines 50-62: the values are printed, for whatever year was asked
CliPrint ==
    /\ pc = "fields_done"
    /\ presented' = "cli"
    /\ pc' = "presented"
    /\ UNCHANGED <<field_args, fields, fields_error>>
    /\ UNCHANGED notFields

\* PIT38Fields.print for a year with a layout
FieldsPrint ==
    /\ pc = "fields_done"
    /\ fields[1].year \in SUPPORTED_PIT38_FORM_YEARS
    /\ presented' = "print"
    /\ pc' = "presented"
    /\ UNCHANGED <<field_args, fields, fields_error>>
    /\ UNCHANGED notFields

\* PIT38Fields.print: ensure_supported_pit38_form_year raises ValueError
FieldsPrintRaises ==
    /\ pc = "fields_done"
    /\ fields[1].year \notin SUPPORTED_PIT38_FORM_YEARS
    /\ fields_error' = "ValueError"
    /\ pc' = "raised"
    /\ UNCHANGED <<field_args, fields, presented>>
    /\ UNCHANGED notFields

NextFields ==
    \/ ReturnFields
    \/ RaiseInvalidOperation
    \/ CliPrint
    \/ FieldsPrint
    \/ FieldsPrintRaises

SpecFields == InitFields /\ [][NextFields]_vars

\* ------------------------------------------------ claims on the fields
FieldsReturned == pc \in {"fields_done", "presented"} \/ (pc = "raised" /\ fields # <<>>)

\* the whole-PLN rounding the statute asks for, on grosze
WholePln(a) ==
    IF a < 0 THEN 0
    ELSE IF a % 100 < 50 THEN (a - (a % 100)) \div 100
    ELSE (a - (a % 100)) \div 100 + 1

\* C15: the tax base (Poz. 29) and the two final liabilities (Poz. 33, Poz. 47)
\* are the amounts they are rounded from with a fractional part below 0.50
\* dropped, a fractional part of 0.50 or more rounded up to the next whole
\* PLN, and 0 for every negative amount.
C15_WholeUnitRounding ==
    FieldsReturned =>
        LET f == fields[1]
        IN  /\ f.poz29 = WholePln(f.poz26)
            /\ f.tax_final = WholePln(f.poz31 - f.poz32)
            /\ f.poz47 = WholePln(f.poz45 - f.poz46)
            /\ (f.poz26 < 0 => f.poz29 = 0)
            /\ (f.poz26 >= 0 /\ f.poz26 % 100 = 49 => 100 * f.poz29 = f.poz26 - 49)
            /\ (f.poz26 >= 0 /\ f.poz26 % 100 = 50 => 100 * f.poz29 = f.poz26 + 50)

\* a base of X.50 with X >= 1 was rounded up to X + 1
C15_Witness ==
    /\ FieldsReturned
    /\ fields[1].poz26 >= 100
    /\ fields[1].poz26 % 100 = 50
    /\ 100 * fields[1].poz29 = fields[1].poz26 + 50

\* C16: Poz. 45 is 19% of the Section G income rounded up to the next grosz:
\* never below the exact product, less than one grosz above it, and above
\* the half-up rounding whenever the dropped part is positive but below half
\* a grosz.
C16_CeilingToGrosz ==
    FieldsReturned =>
        LET f     == fields[1]
            exact == 19 * field_args.total_dividends   \* in 1/1000 grosz
            part  == exact % 1000
        IN  /\ 1000 * f.poz45 >= exact
            /\ 1000 * f.poz45 < exact + 1000
            /\ (part > 0 /\ part < 500 =>
                  f.poz45 = QuantizeHalfUp(exact, 1000) + 1)

\* the dropped part is positive and below half a grosz, and Poz. 45 went up
C16_Witness ==
    /\ FieldsReturned
    /\ (19 * field_args.total_dividends) % 1000 > 0
    /\ (19 * field_args.total_dividends) % 1000 < 500
    /\ 1000 * fields[1].poz45 > 19 * field_args.total_dividends

\* C17: in both sections the foreign-tax credit never exceeds the tax
\* computed locally (Poz. 32 <= Poz. 31, Poz. 46 <= Poz. 45), also when the
\* foreign tax reported is larger, and the final liabilities (Poz. 33,
\* Poz. 47) are never negative.
C17_CreditCapped ==
    FieldsReturned =>
        LET f == fields[1]
        IN  /\ f.poz32 <= f.poz31
            /\ f.poz46 <= f.poz45
            /\ f.tax_final >= 0
            /\ f.poz47 >= 0

\* the foreign tax reported is larger than the local tax in both sections
C17_Witness ==
    /\ FieldsReturned
    /\ field_args.foreign_tax_capital_gains > 10 * fields[1].poz31
    /\ field_args.foreign_tax_dividends > 10 * fields[1].poz45
    /\ fields[1].poz31 > 0
    /\ fields[1].poz45 > 0
    /\ fields[1].poz32 = fields[1].poz31
    /\ fields[1].poz46 = fields[1].poz45

\* C18: a run for a year without a form layout (neither 2024 nor 2025)
\* fails: no field values are produced for it and none are presented.
C18_UnsupportedYearFails ==
    (pc \in {"fields_done", "presented", "raised"}
       /\ field_args.year \notin SUPPORTED_PIT38_FORM_YEARS) =>
        /\ fields = <<>>
        /\ presented = ""

\* ====================================================================
\* calculate_pit38 from merge_with_rates to the printed fields
\* ====================================================================
\* calculate_pit38, lines 854-864: the totals (grosze here) are handed to
\* calculate_pit38_fields
CallCalculatePit38Fields ==
    /\ pc = "totals_done"
    /\ field_args' = [total_proceeds |-> IF totals[1] = NaN THEN NaN ELSE <<10 * totals[1][1]>>,
                      total_costs    |-> IF totals[2] = NaN THEN NaN ELSE <<10 * totals[2][1]>>,
                      total_gain     |-> IF totals[3] = NaN THEN NaN ELSE <<10 * totals[3][1]>>,
                      total_dividends       |-> 10 * section_g.section_g_total_income[1],
                      foreign_tax_dividends |-> 10 * section_g.section_g_foreign_tax[1],
                      foreign_tax_capital_gains |-> 10 * capital_tax[1],
                      year |-> year]
    /\ fields' = <<>>
    /\ fields_error' = ""
    /\ presented' = ""
    /\ pc' = "fields_start"
    /\ UNCHANGED notFields

NextPipeline ==
    \/ MergeWithRates
    \/ FifoStart
    \/ FifoNextSale
    \/ FifoMatchLot
    \/ FifoNoOpenLots
    \/ FifoSaleDone
    \/ FifoFinish
    \/ ComputeSectionG
    \/ ComputeForeignTaxCapitalGains
    \/ CallCalculatePit38Fields
    \/ ReturnFields
    \/ RaiseInvalidOperation
    \/ CliPrint

SpecPipeline == InitRates /\ [][NextPipeline]_vars

\* C19: a row-level condition on the way (here a row without an exchange
\* rate, reported by merge_with_rates) never aborts the run: the run does not
\* end in an exception and, once calculate_pit38_fields has been entered, it
\* returns a field record.
C19_RowConditionNeverAborts ==
    /\ pc # "raised"
    /\ fields_error \in {Idle, ""}

\* ------------------------------------------------ tie order in process_fifo
\* C20 (the claim as stated): sells of equal settlement date are processed in
\* their order in the input table, and so are buy lots of equal settlement
\* date (no lot is taken while an earlier row of the same date and security
\* is still open), so that the allocations and totals are a function of the
\* input row sequence.
C20_TiesKeepInputOrder ==
    pc \in {"fifo_for", "fifo_while", "fifo_done"} =>
        /\ \A i, j \in DOMAIN sellsOrder :
              (i < j /\ merged[sellsOrder[i]].settlement_date
                          = merged[sellsOrder[j]].settlement_date)
                  => sellsOrder[i] < sellsOrder[j]
        /\ \A a \in SeqToSet(allocs) : \A i \in DOMAIN remaining :
              (i < a.lot /\ merged[i].name = merged[a.lot].name
                 /\ merged[i].settlement_date = merged[a.lot].settlement_date)
                  => remaining[i] = 0

\* ------------------------------------------------ allocations of one sell
RECURSIVE SumMatchOnLot(_, _)
SumMatchOnLot(s, lot) ==
    IF s = <<>> THEN 0
    ELSE (IF Head(s).lot = lot THEN Head(s).match ELSE 0) + SumMatchOnLot(Tail(s), lot)

\* a table of two buy lots followed by one sell of the same security that
\* needs all of the first lot and part or all of the second
TwoLotsOneSell ==
    /\ Len(merged) = 3
    /\ IsBuy(merged[1]) /\ IsBuy(merged[2]) /\ IsSell(merged[3])
    /\ merged[1].name = merged[3].name /\ merged[2].name = merged[3].name
    /\ merged[1].shares < Abs(merged[3].shares)
    /\ Abs(merged[3].shares) <= merged[1].shares + merged[2].shares
    /\ year = <<>>

\* C21: a sell that spans k lots has k allocations, one per lot touched (no
\* lot twice, each allocation of a positive quantity, every lot but the last
\* one used up); each allocation's proceeds are its matched quantity times the
\* sell's amount per share and its cost the matched quantity times the lot's
\* sign-flipped amount per original share (to the hundredth they are rounded
\* to).  Two lots followed by one sell that needs all of the first and part
\* of the second give exactly two allocations, whose summed cost is the first
\* lot's quantity at its unit cost plus the rest at the second lot's.
C21_OneAllocationPerLot ==
    /\ \A k \in DOMAIN allocs :
          LET a == allocs[k]
              q == Abs(merged[a.sale].shares)
          IN  /\ a.match > 0
              /\ 2 * Abs(a.proceeds[1] * q - a.match * merged[a.sale].amount_pln[1]) <= q
              /\ 2 * Abs(a.cost[1] * merged[a.lot].shares
                         + a.match * merged[a.lot].amount_pln[1]) <= merged[a.lot].shares
              /\ \A l \in DOMAIN allocs :
                    (k < l /\ allocs[l].sale = a.sale) =>
                        /\ allocs[l].lot # a.lot
                        /\ SumMatchOnLot(SubSeq(allocs, 1, k), a.lot) = merged[a.lot].shares
    /\ (pc = "fifo_done" /\ TwoLotsOneSell) =>
          /\ Len(allocs) = 2
          /\ allocs[1].lot = 1 /\ allocs[1].match = merged[1].shares
          /\ allocs[2].lot = 2
          /\ allocs[2].match = Abs(merged[3].shares) - merged[1].shares
          /\ allocs[1].cost = <<0 - merged[1].amount_pln[1]>>
          /\ 2 * Abs(allocs[2].cost[1] * merged[2].shares
                     + allocs[2].match * merged[2].amount_pln[1]) <= merged[2].shares
          /\ totals[2] = <<allocs[1].cost[1] + allocs[2].cost[1]>>

\* the run over two lots and one sell has ended, and the sell took all of
\* the first lot and only part of the second
C21_Witness ==
    /\ pc = "fifo_done" /\ TwoLotsOneSell
    /\ Len(allocs) = 2
    /\ remaining[1] = 0
    /\ remaining[2] > 0

\* ------------------------------------------------ same-day settlement
\* the corporate actions and cash events the docstring of
\* calculate_settlement_dates lists: RSU vests, dividends, reinvestments,
\* non-resident tax, fees
IsCorporateOrCashEvent(ttype) ==
    \/ Contains(ttype, "RSU")
    \/ Contains(ttype, "DIVIDEND")
    \/ Contains(ttype, "REINVESTMENT")
    \/ Contains(ttype, "NON-RESIDENT TAX")
    \/ ttype = "JOURNALED WIRE/CHECK FEE"

\* a plain purchase or sale on the market, or an ESPP purchase
IsPlainMarketTrade(ttype) == IsMarketTrade(ttype) /\ ~Contains(ttype, "RSU")

DATA_CELLS == {"20240102", "20240103", "kod ISO", "20241340"}

\* the cells of the '1USD' column: comma-decimal rates and an empty cell
USD_CELLS == {"4,0000", "4,1000", ""}

\* df['data'].str.match(r"\d{8}", na=False)
MatchesEightDigits(cell) == cell \in {"20240102", "20240103", "20241340"}

\* pd.to_datetime(df['data'], format='%Y%m%d', errors='coerce'), as a day number
ParseArchiveDate(cell) ==
    CASE cell = "20240102" -> <<2>>
      [] cell = "20240103" -> <<3>>
      [] OTHER -> NaN

\* pd.to_numeric(df['1USD'].str.replace(',', '.'), errors='coerce'), in 1/10000 PLN
ParseArchiveRate(cell) ==
    CASE cell = "4,0000" -> <<40000>>
      [] cell = "4,1000" -> <<41000>>
      [] OTHER -> NaN

ArchiveRows == [data : DATA_CELLS, usd : USD_CELLS]

Archives == UNION { [1..n -> ArchiveRows] : n \in 0..MaxArchiveRows }

\* lines 147-150: the rows of one archive that have a date and a rate
RECURSIVE ParseArchive(_)
ParseArchive(raw) ==
    IF raw = <<>> THEN <<>>
    ELSE LET r    == Head(raw)
             date == ParseArchiveDate(r.data)
             rate == ParseArchiveRate(r.usd)
             rest == ParseArchive(Tail(raw))
         IN  IF MatchesEightDigits(r.data) /\ date # NaN /\ rate # NaN
             THEN <<[date |-> date[1], rate |-> rate[1]]>> \o rest
             ELSE rest

\* drop_duplicates('date'): the first row of each date stays (keep='first')
RECURSIVE DropDuplicateDates(_)
DropDuplicateDates(s) ==
    IF s = <<>> THEN <<>>
    ELSE <<Head(s)>> \o
         DropDuplicateDates(SelectSeq(Tail(s), LAMBDA r : r.date # Head(s).date))

\* pd.concat(rates_list)
RECURSIVE ConcatFrames(_)
ConcatFrames(frames) ==
    IF frames = <<>> THEN <<>> ELSE Head(frames) \o ConcatFrames(Tail(frames))

\* sort_values('date') of rows with distinct dates
RECURSIVE SortByDate(_)
SortByDate(s) ==
    IF s = <<>> THEN <<>>
    ELSE LET m == CHOOSE r \in SeqToSet(s) : \A x \in SeqToSet(s) : r.date <= x.date
         IN  <<m>> \o SortByDate(SelectSeq(s, LAMBDA r : r.date # m.date))

InitNbp ==
    /\ pc = "nbp_for"
    /\ \E n \in 1..MaxUrls : urls \in [1..n -> Archives]
    /\ rates_list = <<>>
    /\ rates = <<>>
    /\ rates_log = <<>>
    /\ IdleFifo /\ IdleDates /\ IdleRates /\ IdleLoad /\ IdleCustom /\ IdleFields /\ IdleIngest

\* lines 144-151: one pass of `for url in urls`
NbpReadUrl ==
    /\ pc = "nbp_for"
    /\ Len(rates_list) < Len(urls)
    /\ rates_list' = Append(rates_list, ParseArchive(urls[Len(rates_list) + 1]))
    /\ UNCHANGED <<pc, urls, rates, rates_log>>
    /\ UNCHANGED notNbp

\* lines 152-154: concat, drop_duplicates, sort, the info line, return
NbpReturn ==
    /\ pc = "nbp_for"
    /\ Len(rates_list) = Len(urls)
    /\ rates' = SortByDate(DropDuplicateDates(ConcatFrames(rates_list)))
    /\ rates_log' = Append(rates_log,
                           [level |-> "info", kind |-> "Loaded", n |-> Len(rates')])
    /\ pc' = "nbp_done"
    /\ UNCHANGED <<urls, rates_list>>
    /\ UNCHANGED notNbp

NextNbp ==
    \/ NbpReadUrl
    \/ NbpReturn

SpecNbp == InitNbp /\ [][NextNbp]_vars

\* ------------------------------------------------ claims on load_nbp_rates
\* the entries (date, rate) the archives hold, over all URLs
IngestedEntries == SeqToSet(ConcatFrames(rates_list))

RateSourcesDisagree(d) ==
    \E a, b \in IngestedEntries : a.date = d /\ b.date = d /\ a.rate # b.rate

\* C23 (the claim as stated): when the archives hold a date more than once,
\* the returned table has exactly one entry for it, and when the entries'
\* rates disagree a warning is logged, so that the rate of a date does not
\* depend silently on the order of the archives.
C23_DuplicateDatesAgreeOrWarn ==
    pc = "nbp_done" =>
        /\ \A e \in IngestedEntries :
              Cardinality({ i \in DOMAIN rates : rates[i].date = e.date }) = 1
        /\ \A e \in IngestedEntries :
              RateSourcesDisagree(e.date) =>
                  \E i \in DOMAIN rates_log : rates_log[i].level = "warning"

\* ====================================================================
\* calculate_pit38 from load_transactions to the dropna on settlement_date
\* ====================================================================
\* the day numbers of load_transactions count from 2024-01-01 = 1, those of
\* the calendar functions from 2024-04-29 = 0
ToCalendarDay(d)   == IF d = NaN THEN NaN ELSE <<d[1] - 120>>
FromCalendarDay(d) == IF d = NaN THEN NaN ELSE <<d[1] + 120>>

\* SettlementDateOf passing the trade date on for every row
SettlementDateOf_Today(row) == <<0>>

\* line 809, for one row
SettlementDateOf(row) ==
    FromCalendarDay(SettlementOf(ToCalendarDay(row.trade_date), row.type))

\* lines 809-817: the settlement dates, the count of the rows without one,
\* the dropna and the warning
SettleAndDropRows ==
    /\ pc = "load_done"
    /\ LET with_dates == [i \in DOMAIN loaded |->
                             [row |-> loaded[i],
                              settlement_date |-> SettlementDateOf(loaded[i])]]
           has_date(r) == r.settlement_date # NaN
           dropped == Cardinality({ i \in DOMAIN with_dates :
                                      with_dates[i].settlement_date = NaN })
       IN  /\ settled' = SelectSeq(with_dates, has_date)
           /\ dropped_settlement_rows' = dropped
           /\ ingest_log' = LogCount("warning", "DroppingRows", dropped)
    /\ pc' = "ingest_done"
    /\ UNCHANGED notIngest

NextIngest ==
    \/ ReadAndConcat
    \/ StripFooterRows
    \/ RaiseCrossFileDuplicates
    \/ RaiseNoStrAccessor
    \/ ParseAndReturn
    \/ SettleAndDropRows

SpecIngest == InitLoad /\ [][NextIngest]_vars

\* ------------------------------------------------ claims on absent dates
\* the rows read from the files of the argument that are no known footer row
\* and have no parseable trade date
UndatedRows == { i \in DOMAIN loaded : loaded[i].trade_date = NaN }

LoggedCount(log, kind) ==
    IF \E i \in DOMAIN log : log[i].kind = kind
    THEN (CHOOSE e \in SeqToSet(log) : e.kind = kind).n
    ELSE 0

\* C24: a row without a parseable trade date that is no known footer row gets
\* no settlement date and is not in the table the totals are computed from;
\* it is counted in the dropped-rows warning, and when it has a non-empty
\* transactional field it is counted in the DataInconsistency error; footer
\* rows are in neither count; rows with a trade date are kept.
C24_UndatedRowsReported ==
    pc = "ingest_done" =>
        /\ \A i \in UndatedRows :
              /\ SettlementDateOf(loaded[i]) = NaN
              /\ \A k \in DOMAIN settled : settled[k].row.trade_date # NaN
        /\ Len(settled) = Len(loaded) - Cardinality(UndatedRows)
        /\ dropped_settlement_rows = Cardinality(UndatedRows)
        /\ LoggedCount(ingest_log, "DroppingRows") = Cardinality(UndatedRows)
        /\ (UndatedRows # {} =>
              \E i \in DOMAIN ingest_log : ingest_log[i].level = "warning")
        /\ LoggedCount(load_log, "InvalidDate") >=
              Cardinality({ i \in UndatedRows :
                  \/ loaded[i].name # NoName
                  \/ loaded[i].shares_raw # NoName
                  \/ loaded[i].amount # NoName
                  \/ loaded[i].type # "nan" })
        /\ Cardinality(UndatedRows) =
              Cardinality({ i \in DOMAIN tx_raw : ParseDate(tx_raw[i].date) = NaN })
        /\ \A i \in DOMAIN tx_raw : ~IsFooterRow(tx_raw[i])

\* a file held a footer row, a row with disclaimer text in the date field and
\* a dividend, and the run dropped and reported only the second
C24_Witness ==
    /\ pc = "ingest_done"
    /\ \E p \in SeqToSet(paths) : \E i \in DOMAIN files[p] : files[p][i] = RAW_FOOTER
    /\ \E i \in DOMAIN loaded : loaded[i].date = FOOTER_TEXT /\ loaded[i].amount = "$0.10"
    /\ dropped_settlement_rows = 1
    /\ LoggedCount(load_log, "InvalidDate") = 1

\* ------------------------------------------------ amounts as written
\* the signed number an Amount cell denotes, in cents (parentheses: negative)
WrittenAmount(x) ==
    CASE x = "-$1,000.00" -> 0 - 100000
      [] x = "$600.00"    -> 60000
      [] x = "$0.10"      -> 10
      [] x = "($1.50)"    -> 0 - 150

\* C25 (the claim as stated): every amount written with a currency symbol,
\* with thousands separators or in parenthesized-negative notation is parsed
\* into the signed number it denotes; a parenthesized amount becomes the
\* negative of the enclosed value and is never left unparsed.
C25_AmountsParsed ==
    pc = "load_done" =>
        \A i \in DOMAIN loaded :
            loaded[i].amount # NoName =>
                loaded[i].amount_usd = <<WrittenAmount(loaded[i].amount)>>

\* ------------------------------------------------ the lots' remaining quantities
\* C26: in every state of process_fifo each lot's remaining quantity lies
\* between 0 and the lot's original quantity, and the lot set is the set of
\* buys; from one step to the next no remaining quantity increases and no
\* lot disappears, and an allocation is only taken from a lot whose remaining
\* quantity was above 0.
C26_RemainingMonotone ==
    /\ [](pc # "fifo_start" =>
            /\ DOMAIN remaining = BuyIdx(merged)
            /\ \A i \in DOMAIN remaining :
                  remaining[i] >= 0 /\ remaining[i] <= merged[i].shares)
    /\ [][pc # "fifo_start" =>
            /\ DOMAIN remaining' = DOMAIN remaining
            /\ \A i \in DOMAIN remaining : remaining'[i] <= remaining[i]
            /\ Len(allocs') > Len(allocs) =>
                  LET a == allocs'[Len(allocs')]
                  IN  /\ remaining[a.lot] > 0
                      /\ remaining'[a.lot] = remaining[a.lot] - a.match
                      /\ a.match > 0]_vars

\* the run has ended with one lot used up, another lot partly consumed after
\* it, and both still in the lot set
C26_Witness ==
    /\ pc = "fifo_done"
    /\ \E i, j \in DOMAIN remaining :
          /\ i < j
          /\ remaining[i] = 0
          /\ remaining[j] > 0 /\ remaining[j] < merged[j].shares
    /\ Len(allocs) >= 2

\* ------------------------------------------------ one pass over all years
\* the allocations of the sell s for the quantity q, from the lots rem:
\* the loop of lines 290-303
RECURSIVE PassMatch(_, _, _, _)
PassMatch(tbl, rem, s, q) ==
    LET open_lots == OpenBuyLots(tbl, rem, tbl[s].name)
    IN  IF q <= 0 \/ open_lots = {} THEN [allocs |-> <<>>, rem |-> rem]
        ELSE LET idx   == PickLot(tbl, open_lots)
                 match == MatchQty(q, rem[idx])
                 rest  == PassMatch(tbl, [rem EXCEPT ![idx] = @ - match], s, q - match)
             IN  [allocs |-> <<[proceeds |-> AllocProceeds(tbl[s], match),
                                cost     |-> AllocCost(tbl[idx], match),
                                sale     |-> s,
                                lot      |-> idx,
                                match    |-> match]>> \o rest.allocs,
                  rem    |-> rest.rem]

\* the allocations of one FIFO pass over the sells in the given order
RECURSIVE PassAllocs(_, _, _)
PassAllocs(tbl, rem, order) ==
    IF order = <<>> THEN <<>>
    ELSE LET r == PassMatch(tbl, rem, Head(order), Abs(tbl[Head(order)].shares))
         IN  r.allocs \o PassAllocs(tbl, r.rem, Tail(order))

\* C27 (the claim as stated): with a target year Y the sells of year Y get
\* the allocations (lots, quantities, costs) they get in one FIFO pass over
\* the sells of all years, in which the sells of earlier years have consumed
\* their lots first.
C27_YearRunMatchesFullPass ==
    (pc = "fifo_done" /\ year # <<>>) =>
        \E o \in SortedOrders(merged, SellIdx(merged)) :
            LET in_year_sale(s) == YearOf(merged[s].settlement_date) = year[1]
                in_year(a)      == in_year_sale(a.sale)
                full == PassAllocs(merged,
                                   [i \in BuyIdx(merged) |-> merged[i].shares], o)
            IN  /\ SelectSeq(o, in_year_sale) = sellsOrder
                /\ SelectSeq(full, in_year) = allocs

(* C28: process_fifo never matches a sell against a buy lot whose         *)
(* settlement date is later than the sell's own settlement date: every    *)
(* allocation pairs a sell with a lot settled on or before the sell.      *)
C28_LotsSettledBeforeSale ==
    \A k \in 1..Len(allocs) :
        merged[allocs[k].lot].settlement_date
            <= merged[allocs[k].sale].settlement_date

\* the custom-summary quantity process_custom allocated to the sell s
CustomQtyOfSale(s) ==
    LET RECURSIVE Total(_)
        Total(k) == IF k = 0 THEN 0
                    ELSE Total(k - 1) + (IF allocs[k].sale = s THEN custom[allocs[k].row].qty ELSE 0)
    IN  Total(Len(allocs))

(* C29: under the custom strategy, over all rows of the custom-summary    *)
(* file, the total quantity allocated to one sell never exceeds the       *)
(* sell's quantity, and the proceeds attributed to the sell never exceed  *)
(* the sell's PLN amount: a row that would exceed it adds nothing.        *)
C29_SaleNotOverAllocated ==
    CustomDone =>
        \A s \in DOMAIN merged :
            /\ CustomQtyOfSale(s) <= Abs(merged[s].shares)
            /\ \A a \in SeqToSet(allocs) :
                   (a.sale = s /\ a.proceeds # NaN /\ merged[s].amount_pln # NaN) =>
                       a.proceeds[1] <= merged[s].amount_pln[1]

\* the NON-RESIDENT TAX rows of the target year
WithholdingTaxRows == { i \in RowsOfYear(merged, year) : Contains(merged[i].type, "NON-RESIDENT TAX") }

(* C30: every NON-RESIDENT TAX row of the target year is counted in       *)
(* exactly one of the two foreign-tax totals, the Section G withholding   *)
(* or the capital-gains foreign tax: never in both and never in neither.  *)
(* So, when every such row has a PLN amount, the two totals add up to the *)
(* tax withheld on these rows.                                            *)
C30_WithholdingCountedOnce ==
    pc = "totals_done" =>
        LET df == RowsOfYear(merged, year)
        IN  /\ \A i \in WithholdingTaxRows :
                   (i \in SectionGTaxRows(merged, df)) # (i \in CapitalGainsTaxRows(merged, df))
            /\ (\A i \in WithholdingTaxRows : merged[i].amount_pln # NaN) =>
                   section_g.section_g_foreign_tax[1] + capital_tax[1]
                       = 0 - PandasSum(merged, WithholdingTaxRows)

Spec == SpecFifo
====
